---- MODULE Spec2Model ----
(***************************************************************************)
(* A model of the pipe2py pipe-graph compiler (pipe2py/compile.py,         *)
(* pipe2py/lib/utils.py) and of the split stage                            *)
(* (pipe2py/modules/pipesplit.py).                                         *)
(*                                                                         *)
(* Python strings are modelled as sequences of one-character strings, so   *)
(* that pythonise, str.startswith and the sorting of names are computed    *)
(* the way the code computes them.                                         *)
(***************************************************************************)
EXTENDS Integers, Sequences, FiniteSets, TLC

VARIABLES
    pc,          \* position of the driver: start, parsed, called, steps, select, yield, run, done, error
    pipe_def,    \* the graph description handed to parse_pipe_def
    pipe,        \* the parsed pipe (modules, embed, graph, wires)
    context,     \* the describe flags of the Context of the run
    module_ids,  \* the topological order computed by build_pipeline
    pydeps,      \* extract_dependencies(pipe_def)
    pyinput,     \* extract_input(pipe_def)
    idx,         \* number of module ids the loop of _get_steps has consumed
    steps,       \* the module-id -> stage mapping of _get_steps
    calls,       \* log of the stage constructor invocations, in order
    splitObjs,   \* the Split objects built so far: split module id -> fan-out and activations
    attached,    \* the consumers (module id, argument key) that have started iterating a split
    pipeline,    \* what build_pipeline iterates over (a list of metadata, or the final stage)
    output,      \* the items build_pipeline has yielded so far
    failed,      \* the consumer whose iter() of a split raised, <<>> if there is none
    error,       \* the exception that ended the run, "none" if there is none
    registry,    \* pipe2py.modules: module type -> __name__ of its constructor function
    run,         \* the number of the build_pipeline call over the parsed pipe
    \* a Split object on its own (pipesplit.py)
    source,      \* the records its _INPUT produces, in order (references into the heap)
    heap,        \* the record objects: reference -> [val, sub]
    split,       \* the Split: its fan-out and the number of branches handed out
    buffer,      \* what tee has pulled from _INPUT so far
    branches,    \* per branch handed out: what it received and what its consumer changed
    results,     \* the outcome of every call of __iter__, in order
    \* a caller pulling records from an unbounded final stage
    final,       \* the kind of the final stage and the value it yields
    want,        \* the number of records the caller takes before it stops
    gen,         \* the position of the stage's generator: new, running, suspended, finished
    produced,    \* the number of records the unbounded stage has produced
    pulls,       \* the number of next() calls the caller has made
    received,    \* the records the caller has received
    caller,      \* idle, waiting (inside next()), ended (StopIteration), failed or stopped
    items,       \* the date strings of the items the input of pipe_datebuilder holds
    yielded,     \* the number of records pipe_datebuilder has yielded
    \* pipe_exchangerate and asyncPipeExchangerate over one input
    rate_in,     \* conf, the rate data of the service and the (word, _pass) pairs of the input
    a_steps,     \* the deferred steps of asyncPipeExchangerate that have fired, in order
    a_items,     \* the deferreds of asyncParseResult, one per pair: pending or its outcome
    a_out,       \* what the deferred of asyncPipeExchangerate fired with, if it has
    s_out,       \* the values pulled from the generator of pipe_exchangerate so far
    s_state      \* that generator: idle, ended or failed

compileVars == <<pc, pipe_def, pipe, context, module_ids, pydeps, pyinput, idx, steps,
                 calls, splitObjs, attached, pipeline, output, failed, error, registry, run>>

splitVars == <<source, heap, split, buffer, branches, results>>

pullVars == <<final, want, gen, produced, pulls, received, caller, items, yielded>>

rateVars == <<rate_in, a_steps, a_items, a_out, s_out, s_state>>

vars == <<compileVars, splitVars, pullVars, rateVars>>

---------------------------------------------------------------------------
(* Bounds of the model *)

\* modules and wires of a graph description
MaxModules == 3
MaxWires == 2
\* records the input of a Split produces, and the fan-out of a Split
MaxRecords == 2
MaxSplits == 2
\* calls of build_pipeline over one parsed pipe
MaxRuns == 2
\* records a caller takes from an unbounded pipeline
MaxPulls == 4
\* items the input of pipe_datebuilder holds
MaxItems == 3
\* items the input of pipe_exchangerate holds
MaxWords == 2

---------------------------------------------------------------------------
(* Strings *)

S_INPUT == <<"_", "I", "N", "P", "U", "T">>
S_OUTPUT == <<"_", "O", "U", "T", "P", "U", "T">>
S_OUTPUT2 == <<"_", "O", "U", "T", "P", "U", "T", "2">>
S_out == <<"o", "u", "t">>
S_2nd == <<"2", "n", "d">>
S_forever == <<"f", "o", "r", "e", "v", "e", "r">>
S_conf == <<"c", "o", "n", "f">>
S_embed == <<"e", "m", "b", "e", "d">>
S_splits == <<"s", "p", "l", "i", "t", "s">>
S_pipe == <<"p", "i", "p", "e">>
S_pipe_ == <<"p", "i", "p", "e", "_">>
S_pipecolon == <<"p", "i", "p", "e", ":">>
S_split == <<"s", "p", "l", "i", "t">>
S_loop == <<"l", "o", "o", "p">>
S_datebuilder == <<"d", "a", "t", "e", "b", "u", "i", "l", "d", "e", "r">>
S_exchangerate == <<"e", "x", "c", "h", "a", "n", "g", "e", "r", "a", "t", "e">>
S_privateinput == <<"p", "r", "i", "v", "a", "t", "e", "i", "n", "p", "u", "t">>
S_nosuch == <<"n", "o", "s", "u", "c", "h">>

\* string.digits
Digits == {"0", "1", "2", "3", "4", "5", "6", "7", "8", "9"}

\* str.startswith
StartsWith(s, p) == Len(s) >= Len(p) /\ SubSeq(s, 1, Len(p)) = p

\* The code points of the characters the model's strings are made of.
Ord(c) ==
    CASE c = "-" -> 45 [] c = "/" -> 47 [] c = "0" -> 48 [] c = "1" -> 49
      [] c = "2" -> 50 [] c = "3" -> 51 [] c = ":" -> 58 [] c = "_" -> 95
      [] c = "a" -> 97 [] c = "b" -> 98 [] c = "c" -> 99 [] c = "d" -> 100
      [] c = "e" -> 101 [] c = "f" -> 102 [] c = "g" -> 103
      [] c = "h" -> 104 [] c = "i" -> 105
      [] c = "l" -> 108 [] c = "n" -> 110 [] c = "o" -> 111 [] c = "p" -> 112
      [] c = "r" -> 114 [] c = "s" -> 115 [] c = "t" -> 116 [] c = "u" -> 117
      [] c = "v" -> 118 [] c = "w" -> 119 [] c = "x" -> 120

\* Python's ordering of two strings: s < t
RECURSIVE StrLess(_, _)
StrLess(s, t) ==
    IF t = <<>> THEN FALSE
    ELSE IF s = <<>> THEN TRUE
    ELSE IF Ord(Head(s)) # Ord(Head(t)) THEN Ord(Head(s)) < Ord(Head(t))
    ELSE StrLess(Tail(s), Tail(t))

\* utils.pythonise: '-', ':' and '/' become '_'; a leading digit gets a '_' prefix
pythonise(id) ==
    LET replaced == [i \in 1..Len(id) |->
                        IF id[i] \in {"-", ":", "/"} THEN "_" ELSE id[i]]
    IN  IF replaced[1] \in Digits THEN <<"_">> \o replaced ELSE replaced

---------------------------------------------------------------------------
(* Python dicts and lists *)

\* dict(pairs): a later pair replaces an earlier one with the same key
DictFromPairs(pairs) ==
    [k \in {pairs[i][1] : i \in 1..Len(pairs)} |->
        pairs[CHOOSE i \in 1..Len(pairs) :
                 /\ pairs[i][1] = k
                 /\ \A j \in (i + 1)..Len(pairs) : pairs[j][1] # k][2]]

\* dict.update
DictUpdate(d, e) ==
    [k \in DOMAIN d \cup DOMAIN e |-> IF k \in DOMAIN e THEN e[k] ELSE d[k]]

\* the keys of a list of pairs, each once, in the order of first appearance
RECURSIVE KeysInOrder(_)
KeysInOrder(pairs) ==
    IF pairs = <<>> THEN <<>>
    ELSE LET front == KeysInOrder(SubSeq(pairs, 1, Len(pairs) - 1))
             k == pairs[Len(pairs)][1]
         IN  IF \E i \in 1..Len(front) : front[i] = k THEN front
             ELSE Append(front, k)

\* the elements of a sequence
Range(s) == {s[i] : i \in 1..Len(s)}

\* the elements of a sequence that satisfy a test, in their order
RECURSIVE SelectSeqIn(_, _)
SelectSeqIn(s, keep) ==
    IF s = <<>> THEN <<>>
    ELSE IF Head(s) \in keep THEN <<Head(s)>> \o SelectSeqIn(Tail(s), keep)
    ELSE SelectSeqIn(Tail(s), keep)

\* sorted(set(names)) of a list of strings
RECURSIVE SortedStrs(_)
SortedStrs(S) ==
    IF S = {} THEN <<>>
    ELSE LET least == CHOOSE s \in S : \A t \in S \ {s} : StrLess(s, t)
         IN  <<least>> \o SortedStrs(S \ {least})

\* the permutations of a finite set, as sequences
Perms(S) ==
    {f \in [1..Cardinality(S) -> S] : \A i, j \in DOMAIN f : f[i] = f[j] => i = j}

---------------------------------------------------------------------------
(* The graph descriptions the model compiles *)

\* the ids of the modules of a description, in the order of its module list
ModPool == << <<"a">>, <<"1">>, <<"b", "-", "c">>, <<"d">> >>
\* the id of the module embedded in the loop at each position
EmbPool == << <<"e", "-", "1">>, <<"e", "-", "2">>, <<"e", "-", "3">>, <<"e", "-", "4">> >>
\* the ids of the wires, in the order of the wire list
WirePool == << <<"w", "1">>, <<"w", "2">>, <<"w", "3">> >>

\* the types a module of a description may have, each with the type of its
\* embedded module (none unless the module is a loop)
PlainChoices == {<<S_datebuilder, <<>> >>, <<S_split, <<>> >>}
TypeChoices ==
    PlainChoices
    \cup {<<S_privateinput, <<>> >>, <<S_nosuch, <<>> >>, <<S_loop, S_datebuilder>>}
\* the terminals a wire may start from and end at
SrcTerminals == <<S_OUTPUT, S_OUTPUT2, S_out>>
TgtTerminals == <<S_INPUT, S_2nd>>

\* a module record of the description; embed stands for conf['embed']['value']
\* and position for conf['position'], conf['name'] and conf['prompt']
Module(id, type, embed, position) ==
    [id |-> id, type |-> type, embed |-> embed, position |-> position]

\* the module at place i of a list of n modules
ModuleAt(i, n, choice) ==
    Module(ModPool[i], choice[1],
           IF choice[1] = S_loop
           THEN <<Module(EmbPool[i], choice[2], <<>>, <<>>)>> ELSE <<>>,
           IF choice[1] = S_privateinput THEN <<n + 1 - i>> ELSE <<>>)

Wire(id, sm, st, tm, tt) ==
    [id |-> id, src |-> [moduleid |-> sm, id |-> st], tgt |-> [moduleid |-> tm, id |-> tt]]

\* What a wire connects, as places in the pools: <<source module, source
\* terminal, target module, target terminal>>. A description of n modules has
\* wires between its modules and the next id of the pool, which it has no
\* module for: such a wire dangles. The descriptions with MaxWires wires use
\* the source terminals _OUTPUT and out.
ModulePlaces(n) == 1..(IF n < MaxModules THEN n + 1 ELSE MaxModules)

SrcPlaces(k) == IF k = MaxWires THEN {1, 3} ELSE 1..Len(SrcTerminals)

WireShapes(n, k) ==
    ModulePlaces(n) \X SrcPlaces(k) \X ModulePlaces(n) \X (1..Len(TgtTerminals))

\* an order of the shapes; the wire list of a description follows it
RECURSIVE ShapeLeq(_, _)
ShapeLeq(s, t) ==
    IF s = <<>> THEN TRUE
    ELSE IF Head(s) # Head(t) THEN Head(s) < Head(t)
    ELSE ShapeLeq(Tail(s), Tail(t))

WireLists(n, k) ==
    {shapes \in [1..k -> WireShapes(n, k)] :
        \A j \in 1..(k - 1) : ShapeLeq(shapes[j], shapes[j + 1])}

PipeDef(types, shapes) ==
    [modules |-> [i \in 1..Len(types) |-> ModuleAt(i, Len(types), types[i])],
     wires |-> [j \in 1..Len(shapes) |->
                   Wire(WirePool[j], ModPool[shapes[j][1]], SrcTerminals[shapes[j][2]],
                        ModPool[shapes[j][3]], TgtTerminals[shapes[j][4]])]]

\* The largest descriptions (MaxModules modules or MaxWires wires) are made of
\* the plain module types; the smaller ones of every type.
TypesFor(n, k) == IF n = MaxModules \/ k = MaxWires THEN PlainChoices ELSE TypeChoices

Context(di, dd) == [describe_input |-> di, describe_dependencies |-> dd]

\* The descriptions with MaxWires wires are run; the smaller ones are also described.
ContextsFor(k) ==
    IF k = MaxWires THEN {Context(FALSE, FALSE)}
    ELSE {Context(di, dd) : di \in BOOLEAN, dd \in BOOLEAN}

---------------------------------------------------------------------------
(* utils.py: the generators parse_pipe_def is built from *)

gen_modules(pd) ==
    [i \in 1..Len(pd.modules) |-> <<pythonise(pd.modules[i].id), pd.modules[i]>>]

RECURSIVE gen_embedded_modules(_)
gen_embedded_modules(pd) ==
    IF pd.modules = <<>> THEN <<>>
    ELSE LET module == Head(pd.modules)
             rest == gen_embedded_modules([pd EXCEPT !.modules = Tail(pd.modules)])
         IN  IF module.type = S_loop
             THEN << <<pythonise(module.embed[1].id), module.embed[1]>> >> \o rest
             ELSE rest

gen_wires(pd) ==
    [j \in 1..Len(pd.wires) |-> <<pythonise(pd.wires[j].id), pd.wires[j]>>]

\* a variant of gen_graph1 that gives the embedded module no edge to its loop
RECURSIVE gen_graph1_no_edge(_)
gen_graph1_no_edge(pd) ==
    IF pd.modules = <<>> THEN <<>>
    ELSE LET module == Head(pd.modules)
             rest == gen_graph1_no_edge([pd EXCEPT !.modules = Tail(pd.modules)])
         IN  IF module.type = S_loop
             THEN << <<pythonise(module.id), <<>> >>,
                     <<pythonise(module.embed[1].id), <<>> >> >> \o rest
             ELSE << <<pythonise(module.id), <<>> >> >> \o rest

\* the (node, edge list) pairs of the modules; a loop depends on its embedded module
RECURSIVE gen_graph1(_)
gen_graph1(pd) ==
    IF pd.modules = <<>> THEN <<>>
    ELSE LET module == Head(pd.modules)
             rest == gen_graph1([pd EXCEPT !.modules = Tail(pd.modules)])
         IN  IF module.type = S_loop
             THEN << <<pythonise(module.id), <<>> >>,
                     <<pythonise(module.embed[1].id), <<pythonise(module.id)>> >> >>
                  \o rest
             ELSE << <<pythonise(module.id), <<>> >> >> \o rest

\* a variant of gen_graph2 that yields (target, source)
gen_graph2_reversed(pd) ==
    [j \in 1..Len(pd.wires) |->
        <<pythonise(pd.wires[j].tgt.moduleid), pythonise(pd.wires[j].src.moduleid)>>]

\* the (source, target) pairs of the wires
gen_graph2(pd) ==
    [j \in 1..Len(pd.wires) |->
        <<pythonise(pd.wires[j].src.moduleid), pythonise(pd.wires[j].tgt.moduleid)>>]

\* a graph: its nodes in insertion order and the edge list of each node
Graph(keys, edges) == [keys |-> keys, edges |-> edges]

\* defaultdict(list, gen_graph1(pipe_def))
Graph1(pd) ==
    Graph(KeysInOrder(gen_graph1(pd)), DictFromPairs(gen_graph1(pd)))

\* a variant of AppendEdges that leaves the wires out of the graph
AppendEdgesDropped(graph, pairs) == graph

\* [graph[k].append(v) for k, v in gen_graph2(pipe_def)]: a missing k is created
RECURSIVE AppendEdges(_, _)
AppendEdges(graph, pairs) ==
    IF pairs = <<>> THEN graph
    ELSE LET k == Head(pairs)[1]
             v == Head(pairs)[2]
             next == IF k \in DOMAIN graph.edges
                     THEN Graph(graph.keys, [graph.edges EXCEPT ![k] = Append(@, v)])
                     ELSE Graph(Append(graph.keys, k),
                                [n \in DOMAIN graph.edges \cup {k} |->
                                    IF n = k THEN <<v>> ELSE graph.edges[n]])
         IN  AppendEdges(next, Tail(pairs))

\* a variant of gen_graph3 that keeps only the nodes that have edges
gen_graph3_sources(graph) ==
    LET kept == {node \in DOMAIN graph.edges : graph.edges[node] # <<>>}
    IN  Graph(SelectSeqIn(graph.keys, kept), [node \in kept |-> graph.edges[node]])

\* gen_graph3: remove the orphan nodes
gen_graph3(graph) ==
    LET kept == {node \in DOMAIN graph.edges :
                    \/ graph.edges[node] # <<>>
                    \/ \E other \in DOMAIN graph.edges : node \in Range(graph.edges[other])}
    IN  Graph(SelectSeqIn(graph.keys, kept), [node \in kept |-> graph.edges[node]])

\* the graph parse_pipe_def builds and prunes, its nodes in insertion order
PrunedGraph(pd) == gen_graph3(AppendEdges(Graph1(pd), gen_graph2(pd)))

\* compile.parse_pipe_def; wire_order and graph_order are the iteration orders
\* of the dicts pipe['wires'] and pipe['graph']
parse_pipe_def(pd, wire_order, graph_order) ==
    LET embed == DictFromPairs(gen_embedded_modules(pd))
        modules == DictUpdate(DictFromPairs(gen_modules(pd)), embed)
    IN  [modules |-> modules,
         embed |-> embed,
         graph |-> Graph(graph_order, PrunedGraph(pd).edges),
         wires |-> DictFromPairs(gen_wires(pd)),
         wire_order |-> wire_order]

---------------------------------------------------------------------------
(* utils.py: the static descriptions *)

\* 'pipe%s' % type
PipeName(type) == S_pipe \o type

\* gen_dependencies: for each module the name of its type and, when its conf
\* has an embedded module, the name of that module's type
RECURSIVE gen_dependencies(_)
gen_dependencies(pd) ==
    IF pd.modules = <<>> THEN <<>>
    ELSE LET module == Head(pd.modules)
             rest == gen_dependencies([pd EXCEPT !.modules = Tail(pd.modules)])
         IN  IF module.embed # <<>>
             THEN <<PipeName(module.type), PipeName(module.embed[1].type)>> \o rest
             ELSE <<PipeName(module.type)>> \o rest

\* a variant of extract_dependencies that returns the names as generated
extract_dependencies_raw(pd) == gen_dependencies(pd)

\* extract_dependencies(pipe_def): sorted(set(pydeps))
extract_dependencies(pd) == SortedStrs(Range(gen_dependencies(pd)))

\* gen_input: one descriptor for each module whose conf declares a user input
RECURSIVE gen_input(_)
gen_input(pd) ==
    IF pd.modules = <<>> THEN <<>>
    ELSE LET module == Head(pd.modules)
             rest == gen_input([pd EXCEPT !.modules = Tail(pd.modules)])
         IN  IF module.position # <<>>
             THEN <<[position |-> module.position[1], name |-> module.id]>> \o rest
             ELSE rest

\* sorted(list(pyinput)): the descriptors are tuples that start with the position
RECURSIVE SortedInputs(_)
SortedInputs(S) ==
    IF S = {} THEN <<>>
    ELSE LET least == CHOOSE d \in S : \A e \in S \ {d} : d.position <= e.position
         IN  <<least>> \o SortedInputs(S \ {least})

extract_input(pd) == SortedInputs(Range(gen_input(pd)))

\* gen_names: the name of the Python module (ntype 'module') or of the stage
\* constructor (ntype 'pipe') of a module type
gen_name(module_type, ntype) ==
    IF StartsWith(module_type, S_pipecolon) THEN pythonise(module_type)
    ELSE IF ntype = "module" THEN S_pipe \o module_type
    ELSE S_pipe_ \o module_type

---------------------------------------------------------------------------
(* The topological sorter, pipe2py.lib.topsort.topological_sort *)

\* the nodes that have an edge to node
Predecessors(graph, node) ==
    {p \in DOMAIN graph.edges : node \in Range(graph.edges[p])}

\* Nodes are placed one at a time: the first node, in the order of the graph
\* it is given, that is not placed and whose predecessors are all placed. When nodes remain and
\* none is ready the graph has a cycle.
RECURSIVE TopSortFrom(_, _)
TopSortFrom(graph, placed) ==
    LET left == {n \in DOMAIN graph.edges : n \notin Range(placed)}
        ready == {n \in left : Predecessors(graph, n) \subseteq Range(placed)}
    IN  IF left = {} THEN [ok |-> TRUE, order |-> placed, unresolved |-> {}]
        ELSE IF ready = {} THEN [ok |-> FALSE, order |-> <<>>, unresolved |-> left]
        ELSE LET first == CHOOSE i \in 1..Len(graph.keys) :
                              /\ graph.keys[i] \in ready
                              /\ \A j \in 1..(i - 1) : graph.keys[j] \notin ready
             IN  TopSortFrom(graph, Append(placed, graph.keys[first]))

\* a variant of the sorter that lists every node twice
topological_sort_twice(graph) ==
    LET sorted == TopSortFrom(graph, <<>>)
    IN  [sorted EXCEPT !.order = @ \o @]

\* a variant of the sorter that returns the nodes as they come, cycle or not
topological_sort_unchecked(graph) == [ok |-> TRUE, order |-> graph.keys, unresolved |-> {}]

topological_sort(graph) == TopSortFrom(graph, <<>>)

---------------------------------------------------------------------------
(* compile.py: the wiring resolver, with the steps mapping present *)

\* A value handed to a stage constructor or kept in steps: a stage ("stage"),
\* the sentinel stage ("forever"), the constructor of an embedded module
\* ("ctor"), a module's conf ("conf") or a number ("int").
Val(kind, of, n) == [kind |-> kind, of |-> of, n |-> n]
Forever == Val("forever", <<>>, 0)
StageOf(id) == Val("stage", id, 0)
\* a variant of CtorOf: the embedded module is constructed like any other
CtorInvoked(id) == Val("stage", id, 0)
CtorOf(id) == Val("ctor", id, 0)
ConfOf(id) == Val("conf", id, 0)
IntVal(n) == Val("int", <<>>, n)
\* what a lookup that raises KeyError stands for
Missing == Val("KeyError", <<>>, 0)

\* steps[key]
Lookup(st, key) == IF key \in DOMAIN st THEN st[key] ELSE Missing

\* a variant of is_default_in_and_out that accepts any source terminal
is_default_in(pipe_wire, module_id) ==
    /\ pythonise(pipe_wire.tgt.moduleid) = module_id
    /\ pipe_wire.tgt.id = S_INPUT

\* is_default_in_and_out of _get_input_module
is_default_in_and_out(pipe_wire, module_id) ==
    /\ pythonise(pipe_wire.tgt.moduleid) = module_id
    /\ pipe_wire.tgt.id = S_INPUT
    /\ StartsWith(pipe_wire.src.id, S_OUTPUT)

\* is_default_out_only of _gen_pykwargs
is_default_out_only(pipe_wire, module_id) ==
    /\ pythonise(pipe_wire.tgt.moduleid) = module_id
    /\ pipe_wire.tgt.id # S_INPUT
    /\ StartsWith(pipe_wire.src.id, S_OUTPUT)

\* the wires of the pipe in the iteration order of pipe['wires']
WiresInOrder(p) == [i \in 1..Len(p.wire_order) |-> p.wires[p.wire_order[i]]]

\* _get_input_module(pipe, module_id, steps)
get_input_module(p, module_id, st) ==
    LET ws == WiresInOrder(p)
        hits == {i \in 1..Len(ws) : is_default_in_and_out(ws[i], module_id)}
    IN  IF module_id \in DOMAIN p.embed THEN Val("placeholder", S_INPUT, 0)
        ELSE IF hits = {} THEN Lookup(st, S_forever)
        ELSE LET first == CHOOSE i \in hits : \A j \in hits : i <= j
             IN  Lookup(st, pythonise(ws[first].src.moduleid))

\* filter_func of _gen_pykwargs: the comparison is evaluated and dropped, the
\* function returns None
filter_func(module_id, pipe_wire) ==
    LET compared == (module_id = pythonise(pipe_wire.src.moduleid))
    IN  FALSE

\* a variant of the pairs of the wires that keeps the terminal name as it is
RECURSIVE WirePairsRaw(_, _, _)
WirePairsRaw(ws, module_id, st) ==
    IF ws = <<>> THEN <<>>
    ELSE IF is_default_out_only(Head(ws), module_id)
         THEN << <<Head(ws).tgt.id, Lookup(st, pythonise(Head(ws).src.moduleid))>> >>
              \o WirePairsRaw(Tail(ws), module_id, st)
         ELSE WirePairsRaw(Tail(ws), module_id, st)

\* the pairs the wires contribute to _gen_pykwargs, in iteration order
RECURSIVE WirePairs(_, _, _)
WirePairs(ws, module_id, st) ==
    IF ws = <<>> THEN <<>>
    ELSE IF is_default_out_only(Head(ws), module_id)
         THEN << <<pythonise(Head(ws).tgt.id),
                   Lookup(st, pythonise(Head(ws).src.moduleid))>> >>
              \o WirePairs(Tail(ws), module_id, st)
         ELSE WirePairs(Tail(ws), module_id, st)

\* _gen_pykwargs(context, pipe, module_id, steps): the pairs it yields, in order
gen_pykwargs(p, module_id, st) ==
    LET module == p.modules[module_id]
        ws == WiresInOrder(p)
        embedded == IF module.type = S_loop
                    THEN << <<S_embed, Lookup(st, pythonise(module.embed[1].id))>> >>
                    ELSE <<>>
        count == Cardinality({i \in 1..Len(ws) : filter_func(module_id, ws[i])})
        splits == IF module.type = S_split
                  THEN << <<S_splits, IntVal(count)>> >>
                  ELSE <<>>
    IN  << <<S_conf, ConfOf(module_id)>> >>
        \o WirePairs(ws, module_id, st) \o embedded \o splits

\* whether evaluating the pairs raised KeyError
RaisesKeyError(pairs) == \E i \in 1..Len(pairs) : pairs[i][2] = Missing

---------------------------------------------------------------------------
(* pipesplit.py: the Split object, as far as activation goes *)

\* Split.__init__: tee(_INPUT, splits) makes splits iterators, none handed out
NewSplit(splits) == [splits |-> splits, activated |-> 0]

\* a variant of the test of Split.__iter__ that lets one more branch out
SplitCanIterOnceMore(obj) == obj.activated <= obj.splits

\* Split.__iter__ returns the next of the iterators; when none is left the
\* StopIteration of self.iterators.next() becomes a ValueError
SplitCanIter(obj) == obj.activated < obj.splits

SplitIter(obj) == [obj EXCEPT !.activated = @ + 1]

\* whether a value is the Split object of a split module
IsSplitStage(objs, value) == value.kind = "stage" /\ value.of \in DOMAIN objs

\* iter(value): only a Split has an __iter__ that can fail or change state;
\* the constructor of an embedded module is a function and not iterable
IterRaises(objs, value) ==
    IF value.kind = "ctor" THEN "TypeError"
    ELSE IF IsSplitStage(objs, value) /\ ~SplitCanIter(objs[value.of]) THEN "ValueError"
    ELSE "none"

IterEffect(objs, value) ==
    IF IsSplitStage(objs, value) /\ SplitCanIter(objs[value.of])
    THEN [objs EXCEPT ![value.of] = SplitIter(@)]
    ELSE objs

---------------------------------------------------------------------------
(* The compile-and-run state machine *)

\* the module types pipe2py.modules has a Python module for: those of
\* src/pipe2py/modules, and loop
RegisteredTypes == {S_datebuilder, S_exchangerate, S_privateinput, S_split, S_loop}

EmptyPipe ==
    [modules |-> <<>>, embed |-> <<>>, graph |-> Graph(<<>>, <<>>), wires |-> <<>>,
     wire_order |-> <<>>]

NoPipeline == [kind |-> "none", items |-> <<>>, stage |-> Missing]

Item(kind, name, inputs, deps) ==
    [kind |-> kind, name |-> name, inputs |-> inputs, deps |-> deps]

\* pipe2py.modules as imported: every constructor function has its def name
NewRegistry == [t \in RegisteredTypes |-> S_pipe_ \o t]

\* no Split is used on its own
NoSplit ==
    /\ source = <<>>
    /\ heap = <<>>
    /\ split = NewSplit(0)
    /\ buffer = <<>>
    /\ branches = <<>>
    /\ results = <<>>

\* no caller is pulling from a stage on its own
NoPull ==
    /\ final = <<>>
    /\ want = 0
    /\ gen = "none"
    /\ produced = 0
    /\ pulls = 0
    /\ received = <<>>
    /\ caller = "none"
    /\ items = <<>>
    /\ yielded = 0

\* no exchange rate is asked for
NoRate ==
    /\ rate_in = <<>>
    /\ a_steps = <<>>
    /\ a_items = <<>>
    /\ a_out = "none"
    /\ s_out = <<>>
    /\ s_state = "none"

\* nothing has been parsed or built
BeforeParse ==
    /\ pc = "start"
    /\ pipe = EmptyPipe
    /\ module_ids = <<>>
    /\ pydeps = <<>>
    /\ pyinput = <<>>
    /\ idx = 0
    /\ steps = <<>>
    /\ calls = <<>>
    /\ splitObjs = <<>>
    /\ attached = {}
    /\ pipeline = NoPipeline
    /\ output = <<>>
    /\ failed = <<>>
    /\ error = "none"
    /\ registry = NewRegistry
    /\ run = 1
    /\ NoSplit
    /\ NoPull
    /\ NoRate

\* the state before parse_pipe_def, for the descriptions of up to maxn modules
\* and maxk wires
InitWith(maxn, maxk) ==
    /\ \E n \in 1..maxn, k \in 0..maxk :
          \E types \in [1..n -> TypesFor(n, k)], shapes \in WireLists(n, k) :
             /\ pipe_def = PipeDef(types, shapes)
             /\ context \in ContextsFor(k)
    /\ BeforeParse

Init == InitWith(MaxModules, MaxWires)

Raise(e) ==
    /\ pc' = "error"
    /\ error' = e

\* pipe = parse_pipe_def(pipe_def); the iteration order of a dict is whatever
\* the hashes of its keys make it
ParsePipeDef ==
    /\ pc = "start"
    /\ \E order \in Perms({pythonise(pipe_def.wires[j].id) : j \in 1..Len(pipe_def.wires)}),
          nodes \in Perms(DOMAIN PrunedGraph(pipe_def).edges) :
          pipe' = parse_pipe_def(pipe_def, order, nodes)
    /\ pc' = "parsed"
    /\ UNCHANGED <<pipe_def, context, module_ids, pydeps, pyinput, idx, steps, calls,
                   splitObjs, attached, pipeline, output, failed, error>>
    /\ UNCHANGED <<registry, run>>
    /\ UNCHANGED <<splitVars, pullVars, rateVars>>

\* the call build_pipeline(context, pipe, pipe_def): build_pipeline has a yield
\* in its body, so the call runs none of it and returns a generator
CallBuildPipeline ==
    /\ pc = "parsed"
    /\ pc' = "called"
    /\ UNCHANGED <<pipe_def, pipe, context, module_ids, pydeps, pyinput, idx, steps, calls,
                   splitObjs, attached, pipeline, output, failed, error, registry, run>>
    /\ UNCHANGED <<splitVars, pullVars, rateVars>>

\* the first next() on the generator: the body of build_pipeline, up to the
\* loop of _get_steps
BuildPipeline ==
    /\ pc = "called"
    /\ LET sorted == topological_sort(pipe.graph)
              di == context.describe_input
              dd == context.describe_dependencies
          IN  /\ context' = context
              /\ IF ~sorted.ok
                 THEN /\ Raise("CyclicGraphError")
                      /\ UNCHANGED <<module_ids, pydeps, pyinput, steps>>
                 ELSE /\ module_ids' = sorted.order
                      /\ pydeps' = extract_dependencies(pipe_def)
                      /\ pyinput' = extract_input(pipe_def)
                      /\ error' = error
                      /\ IF di \/ dd
                         THEN pc' = "select" /\ steps' = steps
                         ELSE pc' = "steps" /\ steps' = [k \in {S_forever} |-> Forever]
    /\ UNCHANGED <<pipe_def, pipe, idx, calls, splitObjs, attached, pipeline, output, failed>>
    /\ UNCHANGED <<registry, run>>
    /\ UNCHANGED <<splitVars, pullVars, rateVars>>

\* the record of one constructor invocation
Call(module_id, name, input, kwargs) ==
    [module_id |-> module_id, name |-> name, input |-> input, kwargs |-> kwargs]

\* the consumer that stands for the for loop of build_pipeline
Driver == << <<>>, S_INPUT >>

\* one iteration of the loop of _get_steps: gen_names, _gen_steps, steps.update
GetStep ==
    /\ pc = "steps"
    /\ idx < Len(module_ids)
    /\ idx' = idx + 1
    /\ LET module_id == module_ids[idx + 1]
       IN  IF module_id \notin DOMAIN pipe.modules
           THEN /\ Raise("KeyError")
                /\ UNCHANGED <<steps, calls, splitObjs, attached, failed, registry>>
           ELSE
           LET module_type == pipe.modules[module_id].type
               pipe_name == gen_name(module_type, "pipe")
               input == get_input_module(pipe, module_id, steps)
               pairs == gen_pykwargs(pipe, module_id, steps)
               kwargs == DictFromPairs(pairs)
               \* Split.__init__: tee(_INPUT, splits) calls iter(_INPUT) unless splits is 0
               eager == module_type = S_split /\ kwargs[S_splits].n > 0
               raised == IF eager THEN IterRaises(splitObjs, input) ELSE "none"
               objs == IF eager THEN IterEffect(splitObjs, input) ELSE splitObjs
               consumer == <<module_id, S_INPUT>>
           IN  IF module_type \notin RegisteredTypes
               THEN /\ Raise("ImportError")
                    /\ UNCHANGED <<steps, calls, splitObjs, attached, failed, registry>>
               ELSE IF module_id \in DOMAIN pipe.embed
               THEN /\ steps' = DictUpdate(steps, [k \in {module_id} |-> CtorOf(module_id)])
                    \* pipe_generator.__name__ = str('pipe_%s' % module_id)
                    /\ registry' = [registry EXCEPT ![module_type] = S_pipe_ \o module_id]
                    /\ UNCHANGED <<pc, error, calls, splitObjs, attached, failed>>
               ELSE IF input = Missing \/ RaisesKeyError(pairs)
               THEN /\ Raise("KeyError")
                    /\ UNCHANGED <<steps, calls, splitObjs, attached, failed, registry>>
               ELSE /\ registry' = registry
                    /\ calls' = Append(calls, Call(module_id, pipe_name, input, kwargs))
                    /\ attached' = IF eager /\ IsSplitStage(splitObjs, input)
                                   THEN attached \cup {consumer} ELSE attached
                    /\ IF raised # "none"
                       THEN /\ Raise(raised)
                            /\ failed' = consumer
                            /\ UNCHANGED <<steps, splitObjs>>
                       ELSE /\ steps' = DictUpdate(steps,
                                            [k \in {module_id} |-> StageOf(module_id)])
                            /\ splitObjs' =
                                 IF module_type = S_split
                                 THEN DictUpdate(objs, [k \in {module_id} |->
                                                           NewSplit(kwargs[S_splits].n)])
                                 ELSE objs
                            /\ UNCHANGED <<pc, error, failed>>
    /\ UNCHANGED <<pipe_def, pipe, context, module_ids, pydeps, pyinput, pipeline, output>>
    /\ UNCHANGED run
    /\ UNCHANGED <<splitVars, pullVars, rateVars>>

\* build_pipeline after _get_steps: the choice of what to iterate over, and
\* the iter() of the for loop
SelectPipeline ==
    /\ \/ pc = "select"
       \/ pc = "steps" /\ idx = Len(module_ids)
    /\ IF context.describe_input /\ context.describe_dependencies
       THEN /\ pipeline' = [kind |-> "list", stage |-> Missing,
                            items |-> <<Item("both", <<>>, pyinput, pydeps)>>]
            /\ pc' = "yield"
            /\ UNCHANGED <<error, splitObjs, attached, failed>>
       ELSE IF context.describe_input
       THEN /\ pipeline' = [kind |-> "list", stage |-> Missing,
                            items |-> [i \in 1..Len(pyinput) |->
                                          Item("input", <<>>, <<pyinput[i]>>, <<>>)]]
            /\ pc' = "yield"
            /\ UNCHANGED <<error, splitObjs, attached, failed>>
       ELSE IF context.describe_dependencies
       THEN /\ pipeline' = [kind |-> "list", stage |-> Missing,
                            items |-> [i \in 1..Len(pydeps) |->
                                          Item("dependency", pydeps[i], <<>>, <<>>)]]
            /\ pc' = "yield"
            /\ UNCHANGED <<error, splitObjs, attached, failed>>
       ELSE IF module_ids = <<>>
       THEN /\ Raise("IndexError")
            /\ UNCHANGED <<pipeline, splitObjs, attached, failed>>
       ELSE LET stage == steps[module_ids[Len(module_ids)]]
            IN  /\ attached' = IF IsSplitStage(splitObjs, stage)
                               THEN attached \cup {Driver} ELSE attached
                /\ IF IterRaises(splitObjs, stage) # "none"
                   THEN /\ Raise(IterRaises(splitObjs, stage))
                        /\ failed' = IF IsSplitStage(splitObjs, stage) THEN Driver ELSE failed
                        /\ UNCHANGED <<pipeline, splitObjs>>
                   ELSE /\ pipeline' = [kind |-> "stage", stage |-> stage, items |-> <<>>]
                        /\ splitObjs' = IterEffect(splitObjs, stage)
                        /\ pc' = "run"
                        /\ UNCHANGED <<error, failed>>
    /\ UNCHANGED <<pipe_def, pipe, context, module_ids, pydeps, pyinput, idx, steps,
                   calls, output>>
    /\ UNCHANGED <<registry, run>>
    /\ UNCHANGED <<splitVars, pullVars, rateVars>>

\* for i in pipeline: yield i, over a list of metadata
YieldItem ==
    /\ pc = "yield"
    /\ IF Len(output) < Len(pipeline.items)
       THEN /\ output' = Append(output, pipeline.items[Len(output) + 1])
            /\ pc' = pc
       ELSE /\ output' = output
            /\ pc' = "done"
    /\ UNCHANGED <<pipe_def, pipe, context, module_ids, pydeps, pyinput, idx, steps,
                   calls, splitObjs, attached, pipeline, failed, error>>
    /\ UNCHANGED <<registry, run>>
    /\ UNCHANGED <<splitVars, pullVars, rateVars>>

\* the value a constructor invocation got under a key (_INPUT: its default input)
ArgOf(call, k) == IF k = S_INPUT THEN call.input ELSE call.kwargs[k]

\* the arguments of a constructor invocation that are Split objects
SplitInputs(call) ==
    {k \in {S_INPUT} \cup DOMAIN call.kwargs : IsSplitStage(splitObjs, ArgOf(call, k))}

\* a constructed stage starts iterating one of its inputs, a split: for item in _INPUT.
\* pipe_privateinput never touches its input, and a Split touches it in __init__ only.
Activate ==
    /\ pc = "run"
    /\ \E c \in 1..Len(calls) :
          \E k \in SplitInputs(calls[c]) :
             LET v == ArgOf(calls[c], k)
                 consumer == <<calls[c].module_id, k>>
             IN  /\ consumer \notin attached
                 /\ pipe.modules[calls[c].module_id].type \notin {S_privateinput, S_split}
                 /\ attached' = attached \cup {consumer}
                 /\ IF IterRaises(splitObjs, v) # "none"
                    THEN /\ Raise(IterRaises(splitObjs, v))
                         /\ failed' = consumer
                         /\ UNCHANGED splitObjs
                    ELSE /\ splitObjs' = IterEffect(splitObjs, v)
                         /\ UNCHANGED <<pc, error, failed>>
    /\ UNCHANGED <<pipe_def, pipe, context, module_ids, pydeps, pyinput, idx, steps,
                   calls, pipeline, output>>
    /\ UNCHANGED <<registry, run>>
    /\ UNCHANGED <<splitVars, pullVars, rateVars>>

\* the caller stops pulling from the pipeline
StopConsuming ==
    /\ pc = "run"
    /\ pc' = "done"
    /\ UNCHANGED <<pipe_def, pipe, context, module_ids, pydeps, pyinput, idx, steps,
                   calls, splitObjs, attached, pipeline, output, failed, error>>
    /\ UNCHANGED <<registry, run>>
    /\ UNCHANGED <<splitVars, pullVars, rateVars>>

Next ==
    \/ ParsePipeDef
    \/ CallBuildPipeline
    \/ BuildPipeline
    \/ GetStep
    \/ SelectPipeline
    \/ YieldItem
    \/ Activate
    \/ StopConsuming

Spec == Init /\ [][Next]_vars

---------------------------------------------------------------------------
(* Several runs of build_pipeline over one parsed pipe *)

\* a further call build_pipeline(context, pipe, pipe_def) once the generator of
\* the previous one is finished with: the locals of build_pipeline and the
\* steps dict of _get_steps are made anew, while pipe, pipe_def, the context and
\* the imported modules are the objects the previous run used
RunAgain ==
    /\ pc \in {"done", "error"}
    /\ run < MaxRuns
    /\ run' = run + 1
    /\ pc' = "called"
    /\ module_ids' = <<>>
    /\ pydeps' = <<>>
    /\ pyinput' = <<>>
    /\ idx' = 0
    /\ steps' = <<>>
    /\ calls' = <<>>
    /\ splitObjs' = <<>>
    /\ attached' = {}
    /\ pipeline' = NoPipeline
    /\ output' = <<>>
    /\ failed' = <<>>
    /\ error' = "none"
    /\ UNCHANGED <<pipe_def, pipe, context, registry>>
    /\ UNCHANGED <<splitVars, pullVars, rateVars>>

InitRuns == InitWith(MaxModules - 1, MaxWires - 1)

NextRuns ==
    \/ ParsePipeDef
    \/ CallBuildPipeline
    \/ BuildPipeline
    \/ GetStep
    \/ SelectPipeline
    \/ YieldItem
    \/ Activate
    \/ StopConsuming
    \/ RunAgain

SpecRuns == InitRuns /\ [][NextRuns]_vars

---------------------------------------------------------------------------
(* Descriptions whose ids differ only in what pythonise replaces *)

\* module ids and wire ids a description may use
IdPool == {<<"a", "-", "b">>, <<"a", "_", "b">>, <<"a", ":", "b">>, <<"a", "b">>,
           <<"1">>, <<"_", "1">>}
WireIdPool == << <<"w", "/", "1">>, <<"w", "_", "1">> >>

\* two modules with different ids, and up to MaxWires wires with different ids
\* from the first to the second
PipeDefOf(ids, types, k) ==
    [modules |-> [i \in 1..2 |-> Module(ids[i], types[i][1], <<>>, <<>>)],
     wires |-> [j \in 1..k |->
                   Wire(WireIdPool[j], ids[1], S_OUTPUT, ids[2], TgtTerminals[j])]]

InitIds ==
    /\ \E ids \in IdPool \X IdPool, types \in [1..2 -> PlainChoices], k \in 0..MaxWires :
          /\ ids[1] # ids[2]
          /\ k <= Len(WireIdPool) /\ k <= Len(TgtTerminals)
          /\ pipe_def = PipeDefOf(ids, types, k)
          /\ context \in ContextsFor(0)
    /\ BeforeParse

SpecIds == InitIds /\ [][Next]_vars

---------------------------------------------------------------------------
(* pipesplit.py: a Split object, its branches and the records they carry *)

\* A record is a dict that holds a value and a nested dict: {'x': v, 'sub': {'y': w}}.
\* An object of the heap is a dict: its own value and the reference of its nested dict.
Obj(val, sub) == [val |-> val, sub |-> sub]

\* references: the i-th record of the input, or the copy of it made for branch b
Ref(kind, part, b, i) == <<kind, part, b, i>>
NoRef == Ref("none", "none", 0, 0)
SubOf(ref) == [ref EXCEPT ![2] = "sub"]

\* the values the records of the input hold, and what a consumer changes them to
RecordValues == {"p", "q"}
Nested == "n"
Changed == "changed"

\* the content of a record, nested dict included
DeepValue(h, ref) == <<h[ref].val, h[h[ref].sub].val>>

\* a variant of deepcopy that copies the outer dict only (copy.copy)
shallowcopy(h, ref, fresh) ==
    [heap |-> DictUpdate(h, [r \in {fresh} |-> Obj(h[ref].val, h[ref].sub)]),
     ref |-> fresh]

\* copy.deepcopy of a record: a new dict with a new nested dict
deepcopy(h, ref, fresh) ==
    [heap |-> DictUpdate(h, [r \in {fresh, SubOf(fresh)} |->
                                IF r = fresh THEN Obj(h[ref].val, SubOf(fresh))
                                ELSE Obj(h[h[ref].sub].val, NoRef)]),
     ref |-> fresh]

\* a variant of tee whose iterators share the input and keep no buffer
TeeUnbuffered(buf, pos) == TRUE

\* a tee whose iterators would fetch from the input one item before they have
\* used up the shared buffer
TeeEager(buf, pos) == pos >= Len(buf) - 1

\* itertools.tee: an iterator that has consumed all of the shared buffer takes
\* the next item from the input; the others are served from the buffer
TeeAtEnd(buf, pos) == pos = Len(buf)

\* a branch as it is handed out by __iter__
NewBranch == [pos |-> 0, got |-> <<>>, seen |-> <<>>, exhausted |-> FALSE, touched |-> {}]

\* the compiler is not involved; pc stays at a place no action of it starts from
CompilerIdle(at) ==
    /\ pc = at
    /\ pipe_def = [modules |-> <<>>, wires |-> <<>>]
    /\ pipe = EmptyPipe
    /\ context = Context(FALSE, FALSE)
    /\ module_ids = <<>>
    /\ pydeps = <<>>
    /\ pyinput = <<>>
    /\ idx = 0
    /\ steps = <<>>
    /\ calls = <<>>
    /\ splitObjs = <<>>
    /\ attached = {}
    /\ pipeline = NoPipeline
    /\ output = <<>>
    /\ failed = <<>>
    /\ error = "none"
    /\ registry = NewRegistry
    /\ run = 1

NotCompiling == CompilerIdle("split") /\ NoPull /\ NoRate

\* Split.__init__(context, _INPUT, conf, splits): _INPUT produces up to
\* MaxRecords records; tee(_INPUT, splits) has pulled nothing yet
SplitInit ==
    /\ NotCompiling
    /\ \E n \in 0..MaxSplits, len \in 0..MaxRecords :
          \E vals \in [1..len -> RecordValues] :
             /\ source = [i \in 1..len |->
                             [ref |-> Ref("source", "top", 0, i),
                              value |-> <<vals[i], Nested>>]]
             /\ heap = [r \in {Ref("source", part, 0, i) :
                                  part \in {"top", "sub"}, i \in 1..len} |->
                           IF r[2] = "top" THEN Obj(vals[r[4]], SubOf(r))
                           ELSE Obj(Nested, NoRef)]
             /\ split = NewSplit(n)
    /\ buffer = <<>>
    /\ branches = <<>>
    /\ results = <<>>

\* Split.__iter__: self.iterators.next(), or ValueError when none is left; a
\* caller tries up to two times more than the fan-out
Split_iter ==
    /\ pc = "split"
    /\ Len(results) < split.splits + 2
    /\ IF SplitCanIter(split)
       THEN /\ split' = SplitIter(split)
            /\ branches' = Append(branches, NewBranch)
            /\ results' = Append(results, [ok |-> TRUE, branch |-> split.activated + 1])
       ELSE /\ results' = Append(results, [ok |-> FALSE, branch |-> 0])
            /\ UNCHANGED <<split, branches>>
    /\ UNCHANGED <<source, heap, buffer>>
    /\ UNCHANGED <<compileVars, pullVars, rateVars>>

\* next() on a branch: the tee iterator's next item, through imap(deepcopy, .)
BranchNext ==
    /\ pc = "split"
    /\ \E b \in 1..Len(branches) :
          LET br == branches[b]
              fromInput == TeeAtEnd(buffer, br.pos)
          IN  /\ ~br.exhausted
              /\ IF fromInput /\ Len(buffer) = Len(source)
                 THEN /\ branches' = [branches EXCEPT ![b].exhausted = TRUE]
                      /\ UNCHANGED <<heap, buffer>>
                 ELSE LET item == IF fromInput THEN source[Len(buffer) + 1].ref
                                  ELSE buffer[br.pos + 1]
                          copy == deepcopy(heap, item, Ref("copy", "top", b, br.pos + 1))
                      IN  /\ buffer' = IF fromInput THEN Append(buffer, item) ELSE buffer
                          /\ heap' = copy.heap
                          /\ branches' =
                               [branches EXCEPT ![b] =
                                   [@ EXCEPT !.pos = @ + 1,
                                             !.got = Append(@, copy.ref),
                                             !.seen = Append(@, DeepValue(copy.heap, copy.ref))]]
    /\ UNCHANGED <<source, split, results>>
    /\ UNCHANGED <<compileVars, pullVars, rateVars>>

\* the consumer of a branch changes, in place, a record it has received:
\* item['x'] = ...; item['sub']['y'] = ...
Mutate ==
    /\ pc = "split"
    /\ \E b \in 1..Len(branches) :
          \E i \in 1..Len(branches[b].got) :
             LET ref == branches[b].got[i]
             IN  /\ i \notin branches[b].touched
                 /\ heap' = [heap EXCEPT ![ref].val = Changed, ![heap[ref].sub].val = Changed]
                 /\ branches' = [branches EXCEPT ![b].touched = @ \cup {i}]
    /\ UNCHANGED <<source, split, buffer, results>>
    /\ UNCHANGED <<compileVars, pullVars, rateVars>>

SplitNext ==
    \/ Split_iter
    \/ BranchNext
    \/ Mutate

SpecSplit == SplitInit /\ [][SplitNext]_vars

---------------------------------------------------------------------------
(* The dependency relation of a description, read off the description itself *)

\* the edges: wire source -> wire target, embedded module -> its loop
DepEdges(pd) ==
    {<<pythonise(pd.wires[j].src.moduleid), pythonise(pd.wires[j].tgt.moduleid)>> :
        j \in 1..Len(pd.wires)}
    \cup {<<pythonise(pd.modules[i].embed[1].id), pythonise(pd.modules[i].id)>> :
             i \in {m \in 1..Len(pd.modules) : pd.modules[m].type = S_loop}}

\* a cycle: a non-empty set of ids each of which has a predecessor in the set
HasCycle(pd) ==
    LET edges == DepEdges(pd)
        ends == {e[1] : e \in edges} \cup {e[2] : e \in edges}
    IN  \E S \in SUBSET ends :
           /\ S # {}
           /\ \A n \in S : \E m \in S : <<m, n>> \in edges

\* a appears before b in a list
Before(order, a, b) ==
    \E i, j \in 1..Len(order) : i < j /\ order[i] = a /\ order[j] = b

\* the topological sort has been done
Sorted == pc \notin {"start", "parsed", "called"}

---------------------------------------------------------------------------
(* Claims *)

C2_CycleFails ==
    (Sorted /\ HasCycle(pipe_def)) =>
        /\ pc = "error"
        /\ error = "CyclicGraphError"
        /\ module_ids = <<>>
        /\ steps = <<>>
        /\ calls = <<>>
        /\ output = <<>>

\* C2 witness: two modules wired to each other, and the failure
C2_Witness ==
    /\ pc = "error"
    /\ error = "CyclicGraphError"
    /\ \E e \in DepEdges(pipe_def) : e[1] # e[2] /\ <<e[2], e[1]>> \in DepEdges(pipe_def)

\* the wires of a description that end at module B (a normalized id) and start
\* at a terminal whose name starts with _OUTPUT
WiresInto(pd, B) ==
    {w \in Range(pd.wires) :
        pythonise(w.tgt.moduleid) = B /\ StartsWith(w.src.id, S_OUTPUT)}

DefaultWires(pd, B) == {w \in WiresInto(pd, B) : w.tgt.id = S_INPUT}

AuxWires(pd, B) == {w \in WiresInto(pd, B) : w.tgt.id # S_INPUT}

\* the stage of the module a wire starts from
SourceStage(w) == StageOf(pythonise(w.src.moduleid))

\* C3: the default input a constructor is invoked with is the stage of a module
\* A that has a wire from a terminal starting with _OUTPUT to _INPUT of the
\* module, whenever there is such a wire, and is the sentinel stage forever if
\* and only if there is none.
C3_DefaultInput ==
    \A c \in 1..Len(calls) :
        LET found == DefaultWires(pipe_def, calls[c].module_id)
        IN  /\ found # {} => calls[c].input \in {SourceStage(w) : w \in found}
            /\ calls[c].input = Forever <=> found = {}

\* C3 witness: a constructor invoked for a module that two modules are wired
\* to the default input of
C3_Witness ==
    \E c \in 1..Len(calls) :
        /\ Cardinality({SourceStage(w) : w \in DefaultWires(pipe_def, calls[c].module_id)}) = 2
        /\ calls[c].input.kind = "stage"

\* the pipe without the wires to the other terminals of module B
WithoutAux(p, B) ==
    [p EXCEPT !.wire_order =
        SelectSeqIn(p.wire_order,
                    {k \in DOMAIN p.wires : ~is_default_out_only(p.wires[k], B)})]

\* C4 as stated: every wire from a terminal starting with _OUTPUT of A to a
\* terminal t other than _INPUT of B gives B's constructor a named input, keyed
\* by the normalized t, that is A's stage.
C4_EveryWireBound ==
    \A c \in 1..Len(calls) :
        \A w \in AuxWires(pipe_def, calls[c].module_id) :
            /\ pythonise(w.tgt.id) \in DOMAIN calls[c].kwargs
            /\ calls[c].kwargs[pythonise(w.tgt.id)] = SourceStage(w)

\* C4: every wire from a terminal starting with _OUTPUT to a terminal t other
\* than _INPUT of B gives B's constructor a named input keyed by the normalized
\* t; it is the stage of the source of one of the wires that end at a terminal
\* of B with that normalized name. The default input is what it is without
\* these wires.
C4_AuxInputs ==
    \A c \in 1..Len(calls) :
        LET B == calls[c].module_id
            aux == AuxWires(pipe_def, B)
        IN  /\ \A w \in aux :
                  /\ pythonise(w.tgt.id) \in DOMAIN calls[c].kwargs
                  /\ calls[c].kwargs[pythonise(w.tgt.id)] \in
                        {SourceStage(v) : v \in {u \in aux : pythonise(u.tgt.id) = pythonise(w.tgt.id)}}
            /\ calls[c].input = get_input_module(WithoutAux(pipe, B), B, steps)

\* C4 witness: a constructor invoked for a module that has one terminal, not
\* _INPUT, wired from two modules, and a default input wired from neither
C4_Witness ==
    \E c \in 1..Len(calls) :
        /\ Cardinality({SourceStage(w) : w \in AuxWires(pipe_def, calls[c].module_id)}) = 2
        /\ S_pipe_ \o S_datebuilder = calls[c].name
        /\ calls[c].input = Forever

\* C4 witness of the plain case: one wire to another terminal, one to _INPUT
C4_WitnessPlain ==
    \E c \in 1..Len(calls) :
        /\ Cardinality(AuxWires(pipe_def, calls[c].module_id)) = 1
        /\ Cardinality(DefaultWires(pipe_def, calls[c].module_id)) = 1
        /\ calls[c].input.kind = "stage"

\* the wires of a description whose source module is A (a normalized id)
WiresFrom(pd, A) == {w \in Range(pd.wires) : pythonise(w.src.moduleid) = A}

\* the constructor invocations of the split modules
SplitCalls == {c \in 1..Len(calls) : calls[c].name = S_pipe_ \o S_split}

\* C5 as stated: the splits argument of a split module's constructor is the
\* number of wires whose source module is that module, and 2 when it has none.
C5_SplitsIsWireCount ==
    \A c \in SplitCalls :
        LET count == Cardinality(WiresFrom(pipe_def, calls[c].module_id))
        IN  calls[c].kwargs[S_splits] = IntVal(IF count = 0 THEN 2 ELSE count)

\* what the code does instead: the splits argument is 0 whatever the wires are
C5_SplitsIsZero ==
    \A c \in SplitCalls : calls[c].kwargs[S_splits] = IntVal(0)

\* a split module with one outgoing wire has been constructed
C5_Reached ==
    \E c \in SplitCalls : Cardinality(WiresFrom(pipe_def, calls[c].module_id)) = 1

\* the modules that a split module A is wired to
Consumers(pd, A) == {pythonise(w.tgt.moduleid) : w \in WiresFrom(pd, A)}

\* the split a consumer that failed to activate was given
FailedOn ==
    IF failed = Driver THEN steps[module_ids[Len(module_ids)]].of
    ELSE LET c == CHOOSE i \in 1..Len(calls) : calls[i].module_id = failed[1]
         IN  ArgOf(calls[c], failed[2]).of

\* C6 as stated: the fan-out given to a split with k >= 1 outgoing wires to k
\* modules is at least k, and no activation of the split fails before k of them
\* have succeeded.
C6_ConsumersActivate ==
    /\ \A c \in SplitCalls :
          calls[c].kwargs[S_splits].n >= Cardinality(Consumers(pipe_def, calls[c].module_id))
    /\ failed # <<>> =>
          splitObjs[FailedOn].activated >= Cardinality(Consumers(pipe_def, FailedOn))

\* the first consumer of a split with one outgoing wire fails to activate
C6_Reached ==
    /\ error = "ValueError"
    /\ failed # <<>>
    /\ failed # Driver
    /\ Cardinality(WiresFrom(pipe_def, FailedOn)) = 1
    /\ splitObjs[FailedOn].activated = 0

\* the context asks for a description
Describing == context.describe_input \/ context.describe_dependencies

\* 'pipe' + type of every module and of every embedded module of a description
TypeNames(pd) ==
    {S_pipe \o pd.modules[i].type : i \in 1..Len(pd.modules)}
    \cup {S_pipe \o pd.modules[i].embed[1].type :
             i \in {m \in 1..Len(pd.modules) : pd.modules[m].embed # <<>>}}

\* a list is the sorted list, without repetition, of the strings of a set
IsSortedListOf(list, S) ==
    /\ Range(list) = S
    /\ \A i, j \in 1..Len(list) : i < j => StrLess(list[i], list[j])

\* the dependency names among the items yielded so far
YieldedNames ==
    IF context.describe_input
    THEN IF output = <<>> THEN <<>> ELSE output[1].deps
    ELSE [i \in 1..Len(output) |-> output[i].name]

\* C10: when the context sets describe_dependencies or describe_input,
\* build_pipeline invokes no constructor and never builds the module-id ->
\* stage mapping; what it yields is metadata of the description, and the
\* dependencies it yields are the sorted list, without repetition, of
\* 'pipe' + type of every module and every embedded module.
C10_DescribeOnly ==
    Describing =>
        /\ calls = <<>>
        /\ steps = <<>>
        /\ splitObjs = <<>>
        /\ pc \notin {"steps", "run"}
        /\ pipeline.kind # "stage"
        /\ \A i \in 1..Len(output) : output[i].kind \in {"both", "input", "dependency"}
        /\ (context.describe_dependencies /\ output # <<>>) =>
              \E names \in {pydeps} :
                 /\ IsSortedListOf(names, TypeNames(pipe_def))
                 /\ IF context.describe_input
                    THEN YieldedNames = names
                    ELSE /\ Len(YieldedNames) <= Len(names)
                         /\ YieldedNames = SubSeq(names, 1, Len(YieldedNames))
                         /\ pc = "done" => YieldedNames = names

\* C10 witness: the dependencies of a description whose module list has the
\* types out of order and one type twice have all been yielded
C10_Witness ==
    /\ pc = "done"
    /\ context.describe_dependencies
    /\ ~context.describe_input
    /\ Len(output) = 2
    /\ Len(pipe_def.modules) = 3
    /\ StrLess(S_pipe \o pipe_def.modules[3].type, S_pipe \o pipe_def.modules[1].type)

\* C7: a split hands each branch its own deep copy of every record: whatever
\* the consumers of the other branches have changed in place in the records
\* they received, a record a branch has received and not changed itself equals
\* the record the input produced at that position.
C7_BranchesIndependent ==
    \A b \in 1..Len(branches) :
        \A i \in 1..Len(branches[b].got) :
            i \notin branches[b].touched =>
                DeepValue(heap, branches[b].got[i]) = source[i].value

\* C7 witness: two branches have received the first record, one has changed it
\* and the other has not
C7_Witness ==
    \E b, c \in 1..Len(branches) :
        /\ b # c
        /\ 1 \in branches[b].touched
        /\ Len(branches[c].got) >= 1
        /\ 1 \notin branches[c].touched

\* C8: a Split of fan-out n hands out a distinct branch at each of the first n
\* calls of __iter__ (the k-th call the k-th branch), and every later call
\* fails with the error.
C8_ExactlyNActivations ==
    /\ split.activated <= split.splits
    /\ Len(branches) = split.activated
    /\ \A k \in 1..Len(results) :
          results[k] = IF k <= split.splits THEN [ok |-> TRUE, branch |-> k]
                       ELSE [ok |-> FALSE, branch |-> 0]

\* C8 witness: a Split of fan-out 2 after four calls of __iter__
C8_Witness ==
    /\ split.splits = 2
    /\ Len(results) = 4
    /\ ~results[3].ok
    /\ ~results[4].ok

\* C9: whatever the interleaving of the pulls, what a branch has yielded so far
\* is the records the input produces, in its order and from the first, each
\* once; a branch ends only when it has yielded them all.
C9_BranchYieldsInput ==
    \A b \in 1..Len(branches) :
        /\ Len(branches[b].seen) <= Len(source)
        /\ \A i \in 1..Len(branches[b].seen) : branches[b].seen[i] = source[i].value
        /\ branches[b].exhausted => Len(branches[b].seen) = Len(source)

\* C9 witness: the input produces two different records; one branch has run to
\* its end before the other has pulled its second record
C9_Witness ==
    /\ Len(source) = 2
    /\ source[1].value # source[2].value
    /\ \E b, c \in 1..Len(branches) :
          /\ branches[b].exhausted
          /\ Len(branches[c].seen) = 1

\* the constructor invocations made for a module id
CallsFor(id) == {c \in 1..Len(calls) : calls[c].module_id = id}

\* C11: within one run the constructor of a module is invoked at most once; a
\* stage recorded under a module id comes from the one invocation for that id,
\* and an entry of the module-id -> stage mapping, once made, is never replaced.
C11_AtMostOnce ==
    /\ [](\A c, d \in 1..Len(calls) : calls[c].module_id = calls[d].module_id => c = d)
    /\ [](\A id \in DOMAIN steps :
             steps[id].kind = "stage" => Cardinality(CallsFor(id)) = 1)
    /\ [][\A id \in DOMAIN steps : id \in DOMAIN steps' /\ steps'[id] = steps[id]]_vars

\* C11 witness: three modules, each constructed, the mapping complete
C11_Witness ==
    /\ Len(calls) = 3
    /\ pc = "run"
    /\ \A i \in 1..Len(module_ids) : steps[module_ids[i]] = StageOf(module_ids[i])

\* the loop modules of a description
LoopsOf(pd) == {m \in Range(pd.modules) : m.type = S_loop}

\* C12: the constructor of an embedded module is never invoked at compile time;
\* what is recorded under its id is the constructor itself, its default input
\* resolves to the placeholder '_INPUT', and the loop that owns it is
\* constructed with that recorded constructor as its 'embed' argument.
C12_EmbeddedNotInvoked ==
    pc # "start" =>
        \A loop \in LoopsOf(pipe_def) :
            LET e == pythonise(loop.embed[1].id)
                input == get_input_module(pipe, e, steps)
            IN  /\ CallsFor(e) = {}
                /\ e \in DOMAIN steps => steps[e].kind = "ctor" /\ steps[e].of = e
                /\ input.kind = "placeholder" /\ input.of = S_INPUT
                /\ \A c \in CallsFor(pythonise(loop.id)) :
                      /\ S_embed \in DOMAIN calls[c].kwargs
                      /\ calls[c].kwargs[S_embed].kind = "ctor"
                      /\ calls[c].kwargs[S_embed].of = e
                      /\ calls[c].kwargs[S_embed] = steps[e]

\* C12 witness: a loop has been constructed
C12_Witness ==
    \E loop \in LoopsOf(pipe_def) :
        /\ CallsFor(pythonise(loop.id)) # {}
        /\ pythonise(loop.embed[1].id) \in DOMAIN steps

\* the loop of _get_steps is about to assemble module id
Assembling(id) == pc = "steps" /\ idx < Len(module_ids) /\ module_ids[idx + 1] = id

\* C13: every embedded module is a node of the graph of the parsed pipe, with
\* an edge to its loop, pruning or not; once the modules are sorted it comes
\* before its loop in the order, and when the loop is assembled the embedded
\* module is in the module-id -> stage mapping, so the 'embed' lookup finds it.
C13_EmbedBeforeLoop ==
    pc # "start" =>
        \A loop \in LoopsOf(pipe_def) :
            LET e == pythonise(loop.embed[1].id)
                l == pythonise(loop.id)
            IN  /\ e \in DOMAIN pipe.graph.edges
                /\ l \in Range(pipe.graph.edges[e])
                /\ (Sorted /\ error # "CyclicGraphError") => Before(module_ids, e, l)
                /\ Assembling(l) => e \in DOMAIN steps

\* C13 witness: a loop that the graph lists before its embedded module is
\* assembled after it
C13_Witness ==
    \E loop \in LoopsOf(pipe_def) :
        /\ Before(pipe.graph.keys, pythonise(loop.id), pythonise(loop.embed[1].id))
        /\ Before(module_ids, pythonise(loop.embed[1].id), pythonise(loop.id))
        /\ Assembling(pythonise(loop.id))

\* the graph parse_pipe_def builds before it prunes it
Unpruned(pd) == AppendEdges(Graph1(pd), gen_graph2(pd))

\* the ids of the modules and embedded modules of a description, normalized
ModuleIds(pd) ==
    {pythonise(m.id) : m \in Range(pd.modules)}
    \cup {pythonise(m.embed[1].id) : m \in LoopsOf(pd)}

\* C14: pruning removes from the graph exactly the nodes whose edge list is
\* empty and that are in no node's edge list (the ids at neither end of an
\* edge of the description); every other node keeps its edge list, and every
\* module of the description, pruned or not, is in the module map.
C14_OrphanPruning ==
    pc # "start" =>
        LET before == Unpruned(pipe_def).edges
            after == pipe.graph.edges
            orphans == {n \in DOMAIN before :
                           /\ before[n] = <<>>
                           /\ \A m \in DOMAIN before : n \notin Range(before[m])}
        IN  /\ DOMAIN after = DOMAIN before \ orphans
            /\ \A n \in DOMAIN after : after[n] = before[n]
            /\ \A n \in DOMAIN before :
                  n \in orphans <=> \A e \in DepEdges(pipe_def) : e[1] # n /\ e[2] # n
            /\ ModuleIds(pipe_def) \subseteq DOMAIN before
            /\ ModuleIds(pipe_def) = DOMAIN pipe.modules

\* C14 witness: of three modules one is wired to another, which has no edges
\* of its own and stays; the third is pruned and still in the module map
C14_Witness ==
    /\ pc = "parsed"
    /\ Len(pipe_def.modules) = 3
    /\ Cardinality(DOMAIN pipe.graph.edges) = 2
    /\ \E n \in DOMAIN pipe.graph.edges : pipe.graph.edges[n] = <<>>
    /\ \E n \in DOMAIN pipe.modules : n \notin DOMAIN pipe.graph.edges

----------------------------------------------------------------------------
(* C15: when compile errors reach the caller *)

\* the caller holds the generator that the call of build_pipeline returned
HoldsPipeline == pc \notin {"start", "parsed"}

\* an error of the compilation: the sorter's, or one of _gen_steps (import,
\* wiring, constructor) at a module of the order, which then has no step
CompileErrorRaised ==
    /\ pc = "error"
    /\ \/ error = "CyclicGraphError"
       \/ \E i \in 1..Len(module_ids) : module_ids[i] \notin DOMAIN steps

\* C15: every compile-time error (cycle, dangling wire, unknown type, constructor
\* failure) is raised by the compile call itself: once the caller holds the pipeline
\* object that the call returned, no compile error surfaces any more
C15_ErrorsAreEager == HoldsPipeline => ~CompileErrorRaised

\* the call has returned its generator for a cyclic description, nothing raised yet
C15_Reached == pc = "called" /\ HasCycle(pipe_def) /\ error = "none"

----------------------------------------------------------------------------
(* C16: what two runs over one parsed pipe share *)

\* C16: two build_pipeline runs over the same parsed pipe share no mutable run
\* state: each run starts from its own empty steps mapping, and no run changes
\* an object reachable from the module registry, so a later run finds every
\* constructor function as the import made it
C16_RunsShareNothing ==
    /\ pc = "called" => steps = <<>> /\ calls = <<>>
    /\ registry = NewRegistry

\* a second run has been called after a run that took an embedded constructor
\* out of the registry
C16_Reached ==
    /\ run = 2
    /\ pc = "called"
    /\ LoopsOf(pipe_def) # {}
    /\ registry # NewRegistry

----------------------------------------------------------------------------
(* A caller pulling from a pipeline whose final or root stage is unbounded *)

\* the final stage and the record it yields: pipe_privateinput yields the value
\* of get_input (from context.inputs or the default, no console in between);
\* pipe_datebuilder and make_finite read the sentinel, which yields without end
FinalStages ==
    {[kind |-> "privateinput", value |-> v] : v \in RecordValues}
    \cup {[kind |-> "datebuilder", value |-> "date"],
          [kind |-> "make_finite", value |-> "forever"]}

\* a variant of AfterYield: the stage goes round its loop without suspending
AfterYieldRunsOn == "stage"

\* where control is once the stage has executed its yield: in the frame that
\* called next(), the loop of build_pipeline
AfterYield == "yield"

\* the generators exist, none of their bodies has run
PullInit ==
    /\ CompilerIdle("pull")
    /\ NoSplit
    /\ NoRate
    /\ final \in FinalStages
    /\ want \in 1..MaxPulls
    /\ gen = "new"
    /\ produced = 0
    /\ pulls = 0
    /\ received = <<>>
    /\ caller = "idle"
    /\ items = <<>>
    /\ yielded = 0

\* the caller calls next() on the generator of build_pipeline
CallerNext ==
    /\ caller = "idle"
    /\ Len(received) < want
    /\ pulls < MaxPulls
    /\ caller' = "waiting"
    /\ pulls' = pulls + 1
    /\ gen' = "loop"
    /\ UNCHANGED <<final, want, produced, received>>
    /\ UNCHANGED <<items, yielded>>
    /\ UNCHANGED <<compileVars, splitVars, rateVars>>

\* build_pipeline: the for statement over pipeline calls next() on the stage
PipelineNext ==
    /\ gen = "loop"
    /\ gen' = "stage"
    /\ UNCHANGED <<final, want, produced, pulls, received, caller>>
    /\ UNCHANGED <<items, yielded>>
    /\ UNCHANGED <<compileVars, splitVars, rateVars>>

\* the stage runs from where it was suspended to its next yield: the unbounded
\* stage produces one record (pipe_privateinput its value, the sentinel its
\* item); takewhile in make_finite ends on an item that has 'forever'
StageResume ==
    /\ gen = "stage"
    /\ produced <= MaxPulls
    /\ produced' = produced + 1
    /\ gen' = IF final.kind = "make_finite" /\ produced >= 1 THEN "stop" ELSE AfterYield
    /\ UNCHANGED <<final, want, pulls, received, caller>>
    /\ UNCHANGED <<items, yielded>>
    /\ UNCHANGED <<compileVars, splitVars, rateVars>>

\* build_pipeline: yield i, or the end of the for statement (StopIteration)
PipelineYield ==
    /\ gen \in {"yield", "stop"}
    /\ IF gen = "yield"
       THEN /\ received' = Append(received, final.value)
            /\ caller' = "idle"
            /\ gen' = "suspended"
       ELSE /\ caller' = "ended"
            /\ gen' = "finished"
            /\ UNCHANGED received
    /\ UNCHANGED <<final, want, produced, pulls>>
    /\ UNCHANGED <<items, yielded>>
    /\ UNCHANGED <<compileVars, splitVars, rateVars>>

\* the caller has the records it wanted and drops the generator
CallerStop ==
    /\ caller = "idle"
    /\ Len(received) = want
    /\ caller' = "stopped"
    /\ UNCHANGED <<final, want, gen, produced, pulls, received>>
    /\ UNCHANGED <<items, yielded>>
    /\ UNCHANGED <<compileVars, splitVars, rateVars>>

PullNext ==
    \/ CallerNext
    \/ PipelineNext
    \/ StageResume
    \/ PipelineYield
    \/ CallerStop

\* the interpreter runs the code of a next() call on; the caller is free to
\* pull or not
SpecPull ==
    /\ PullInit
    /\ [][PullNext]_vars
    /\ WF_vars(PipelineNext)
    /\ WF_vars(StageResume)
    /\ WF_vars(PipelineYield)

----------------------------------------------------------------------------
(* C17: early termination *)

\* C17: a caller that takes only the first record of a pipeline whose final or
\* root stage produces without end gets it after finitely many steps; every
\* pull returns, each pull makes the unbounded stage produce exactly one
\* record, nothing is produced without a pull, and once the caller has stopped
\* nothing is produced any more
C17_EarlyTermination ==
    /\ [](produced <= pulls)
    /\ [](caller # "waiting" => produced = pulls)
    /\ [][produced' # produced => produced' = produced + 1 /\ caller = "waiting"]_vars
    /\ [][caller = "stopped" => produced' = produced]_vars
    /\ (caller = "waiting") ~> (caller # "waiting")
    /\ (want = 1 /\ caller = "waiting")
          ~> (caller = "idle" /\ Len(received) = 1 /\ produced = 1)

\* the caller took one record of pipe_privateinput and stopped
C17_Witness ==
    /\ final.kind = "privateinput"
    /\ want = 1
    /\ caller = "stopped"
    /\ received = <<final.value>>
    /\ produced = 1

----------------------------------------------------------------------------
(* C18: pythonise and the maps keyed by its results *)

\* the modules of a description, the embedded ones included
AllModules(pd) == Range(pd.modules) \cup {m.embed[1] : m \in LoopsOf(pd)}

\* C18: pythonise is collision-free: modules with different ids get different
\* keys and wires with different ids get different keys, so the parsed pipe holds
\* every module and every wire of the description under its own key
C18_NoCollision ==
    pc # "start" =>
       /\ \A m, n \in AllModules(pipe_def) :
             m.id # n.id => pythonise(m.id) # pythonise(n.id)
       /\ \A v, w \in Range(pipe_def.wires) :
             v.id # w.id => pythonise(v.id) # pythonise(w.id)
       /\ \A m \in AllModules(pipe_def) : pipe.modules[pythonise(m.id)] = m
       /\ \A w \in Range(pipe_def.wires) : pipe.wires[pythonise(w.id)] = w

\* the modules a-b and a_b have been parsed into a module map of one key
C18_Reached ==
    /\ pc = "parsed"
    /\ {m.id : m \in Range(pipe_def.modules)} = {<<"a", "-", "b">>, <<"a", "_", "b">>}
    /\ Cardinality(DOMAIN pipe.modules) = 1

----------------------------------------------------------------------------
(* C19, C20: wires to and from modules the description does not have *)

\* the wires of a description whose source or target is none of its modules
DanglingSources(pd) ==
    {w \in Range(pd.wires) : pythonise(w.src.moduleid) \notin ModuleIds(pd)}

DanglingTargets(pd) ==
    {w \in Range(pd.wires) : pythonise(w.tgt.moduleid) \notin ModuleIds(pd)}

\* C19: in the parsed pipe of every description parse_pipe_def accepts, every
\* node of the adjacency graph, every id in an edge list and the source and
\* target module of every wire is a key of the module map
C19_IdsAreModules ==
    pc # "start" =>
       /\ \A n \in DOMAIN pipe.graph.edges :
             /\ n \in DOMAIN pipe.modules
             /\ Range(pipe.graph.edges[n]) \subseteq DOMAIN pipe.modules
       /\ \A k \in DOMAIN pipe.wires :
             /\ pythonise(pipe.wires[k].src.moduleid) \in DOMAIN pipe.modules
             /\ pythonise(pipe.wires[k].tgt.moduleid) \in DOMAIN pipe.modules

\* parse_pipe_def has returned a pipe whose graph has a node that is no module
C19_Reached ==
    /\ pc = "parsed"
    /\ DanglingSources(pipe_def) # {}
    /\ \E n \in DOMAIN pipe.graph.edges : n \notin DOMAIN pipe.modules

\* a description whose only fault is a dangling wire: no cycle, every type known
OnlyDangling(pd) ==
    /\ DanglingSources(pd) \cup DanglingTargets(pd) # {}
    /\ ~HasCycle(pd)
    /\ \A m \in AllModules(pd) : m.type \in RegisteredTypes

\* C20: a wire whose source or target module the description does not have is
\* rejected during wiring resolution with the dangling-wire error, before any
\* constructor is invoked: no constructor call is ever made for such a
\* description, no pipeline is selected for it, and the error that ends the
\* compilation is the dangling-wire error
C20_DanglingWireRejected ==
    (OnlyDangling(pipe_def) /\ ~Describing) =>
       /\ calls = <<>>
       /\ pc \notin {"select", "yield", "run", "done"}
       /\ pc = "error" => error = "DanglingWireError"

\* the compilation of a description with a wire from a module it does not have
\* has ended with the KeyError of the module map
C20_Reached ==
    /\ OnlyDangling(pipe_def)
    /\ DanglingSources(pipe_def) # {}
    /\ ~Describing
    /\ pc = "error"
    /\ error = "KeyError"

----------------------------------------------------------------------------
(* C21: a module type without constructor *)

\* the modules of a description whose type no module of pipe2py.modules has
UnknownTyped(pd) == {m \in AllModules(pd) : m.type \notin RegisteredTypes}

\* a description whose only fault is a module of unknown type
OnlyUnknownType(pd) ==
    /\ UnknownTyped(pd) # {}
    /\ ~HasCycle(pd)
    /\ DanglingSources(pd) \cup DanglingTargets(pd) = {}

\* C21: a module whose type has no registered constructor makes the assembly
\* fail with the unknown-module-type error; the run is aborted and yields no
\* record, even when stages of earlier modules were already constructed
C21_UnknownTypeFails ==
    (OnlyUnknownType(pipe_def) /\ ~Describing) =>
       /\ pc \notin {"select", "yield", "run", "done"}
       /\ output = <<>>
       /\ pc = "error" => error = "UnknownModuleTypeError"

\* the assembly has failed at a module of unknown type, after the constructor
\* of an earlier module was invoked
C21_Reached ==
    /\ OnlyUnknownType(pipe_def)
    /\ ~Describing
    /\ pc = "error"
    /\ error = "ImportError"
    /\ calls # <<>>
    /\ output = <<>>

----------------------------------------------------------------------------
(* pipedatebuilder.py: the date of an item *)

S_today == <<"t", "o", "d", "a", "y">>
S_now == <<"n", "o", "w">>
S_tomorrow == <<"t", "o", "m", "o", "r", "r", "o", "w">>
S_yesterday == <<"y", "e", "s", "t", "e", "r", "d", "a", "y">>
S__day == <<" ", "d", "a", "y">>
S__days == <<" ", "d", "a", "y", "s">>
S__year == <<" ", "y", "e", "a", "r">>
S__years == <<" ", "y", "e", "a", "r", "s">>

\* str.endswith
EndsWith(s, p) == Len(s) >= Len(p) /\ SubSeq(s, Len(s) - Len(p) + 1, Len(s)) = p

\* str.split(sep): the fields of s between the separators
RECURSIVE Fields(_, _)
Fields(s, sep) ==
    IF \A i \in 1..Len(s) : s[i] # sep THEN <<s>>
    ELSE LET at == CHOOSE i \in 1..Len(s) : s[i] = sep /\ \A j \in 1..(i - 1) : s[j] # sep
         IN  <<SubSeq(s, 1, at - 1)>> \o Fields(SubSeq(s, at + 1, Len(s)), sep)

\* int(s) of a string of decimal digits
IsInt(s) == s # <<>> /\ \A i \in 1..Len(s) : s[i] \in Digits
DigitVal(c) == CHOOSE d \in 0..9 : <<"0", "1", "2", "3", "4", "5", "6", "7", "8", "9">>[d + 1] = c
RECURSIVE IntOf(_)
IntOf(s) == IF s = <<>> THEN 0 ELSE 10 * IntOf(SubSeq(s, 1, Len(s) - 1)) + DigitVal(s[Len(s)])

\* datetime.strptime with one of the formats month, day, year of
\* ALTERNATIVE_DATE_FORMATS (separator '-' or '/', year of two or four digits)
MatchesFormat(s, sep) ==
    LET f == Fields(s, sep)
    IN  /\ Len(f) = 3
        /\ \A i \in 1..3 : IsInt(f[i])
        /\ Len(f[1]) <= 2 /\ IntOf(f[1]) \in 1..12
        /\ Len(f[2]) <= 2 /\ IntOf(f[2]) \in 1..31
        /\ Len(f[3]) \in {2, 4}

\* utils.get_date: the parsed date, or None when no format matches
get_date(s) == IF MatchesFormat(s, "-") \/ MatchesFormat(s, "/") THEN <<"date", s>> ELSE Missing

\* what pipe_datebuilder makes of the (lower case) date string of an item: the
\* time tuple it yields, or the exception it raises
new_date(date) ==
    IF \/ EndsWith(date, S__day) \/ EndsWith(date, S__days)
       \/ EndsWith(date, S__year) \/ EndsWith(date, S__years)
    THEN LET count == Fields(date, " ")[1]
         IN  IF IsInt(count)
             THEN [raises |-> "none", tuple |-> <<"offset", IntOf(count), Fields(date, " ")[2]>>]
             ELSE [raises |-> "ValueError", tuple |-> Missing]
    ELSE IF date \in {S_today, S_tomorrow, S_yesterday, S_now}
    THEN [raises |-> "none", tuple |-> <<"switch", date>>]
    ELSE IF get_date(date) # Missing
    THEN [raises |-> "none", tuple |-> get_date(date)]
    ELSE [raises |-> "Exception", tuple |-> Missing]

----------------------------------------------------------------------------
(* A caller pulling from pipe_datebuilder over a finite input *)

\* the date strings of the items
DatePool == {S_today, <<"2">> \o S__days, <<"x">> \o S__days,
             <<"1", "/", "2", "/", "1", "4">>, <<"1", "3", "-", "2", "-", "1", "4">>,
             <<"z", "z">>}

RECURSIVE SeqsUpTo(_, _)
SeqsUpTo(S, n) ==
    IF n = 0 THEN {<<>>}
    ELSE LET shorter == SeqsUpTo(S, n - 1)
         IN  shorter \cup {Append(q, x) : q \in shorter, x \in S}

ChainInit ==
    /\ CompilerIdle("chain")
    /\ NoSplit
    /\ NoRate
    /\ final = [kind |-> "datebuilder", value |-> "date"]
    /\ want \in 1..MaxPulls
    /\ gen = "new"
    /\ produced = 0
    /\ pulls = 0
    /\ received = <<>>
    /\ caller = "idle"
    /\ items \in SeqsUpTo(DatePool, MaxItems)
    /\ yielded = 0

\* pipe_datebuilder: the for statement over _INPUT calls next() on the input,
\* which yields its next item or is exhausted; exhaustion ends the for
\* statement and with it the generator
InputNext ==
    /\ gen = "stage"
    /\ IF produced < Len(items)
       THEN produced' = produced + 1 /\ gen' = "item"
       ELSE produced' = produced /\ gen' = "stop"
    /\ UNCHANGED <<final, want, pulls, received, caller, items, yielded>>
    /\ UNCHANGED <<compileVars, splitVars, rateVars>>

\* a variant of AfterDateYield: the stage goes on to its next item at once
AfterDateYieldRunsOn == "stage"

\* where control is once pipe_datebuilder has executed its yield: in the frame
\* that called next() on it
AfterDateYield == "yield"

\* pipe_datebuilder: the body of the for statement, to the yield or the raise
DatebuilderYield ==
    /\ gen = "item"
    /\ IF new_date(items[produced]).raises = "none"
       THEN yielded' = yielded + 1 /\ gen' = AfterDateYield
       ELSE yielded' = yielded /\ gen' = "raise"
    /\ UNCHANGED <<final, want, produced, pulls, received, caller, items>>
    /\ UNCHANGED <<compileVars, splitVars, rateVars>>

\* a variant of AfterRaise: the exception of the stage ends the output
AfterRaiseEnds == "ended"

\* what the caller's next() does when the stage raises: build_pipeline has no
\* handler around its for statement, the exception leaves the next() call
AfterRaise == "failed"

\* build_pipeline: yield i, the end of the for statement, or the exception of
\* the stage passing through
ChainYield ==
    /\ gen \in {"yield", "stop", "raise"}
    /\ IF gen = "yield"
       THEN /\ received' = Append(received, new_date(items[produced]).tuple)
            /\ caller' = "idle"
            /\ gen' = "suspended"
       ELSE /\ caller' = IF gen = "raise" THEN AfterRaise ELSE "ended"
            /\ gen' = "finished"
            /\ UNCHANGED received
    /\ UNCHANGED <<final, want, produced, pulls, items, yielded>>
    /\ UNCHANGED <<compileVars, splitVars, rateVars>>

ChainNext ==
    \/ CallerNext
    \/ PipelineNext
    \/ InputNext
    \/ DatebuilderYield
    \/ ChainYield
    \/ CallerStop

\* the interpreter runs the code of a next() call on; the caller is free to
\* pull or not
SpecChain ==
    /\ ChainInit
    /\ [][ChainNext]_vars
    /\ WF_vars(PipelineNext)
    /\ WF_vars(InputNext)
    /\ WF_vars(DatebuilderYield)
    /\ WF_vars(ChainYield)

----------------------------------------------------------------------------
(* C22: a stage that fails while producing a record *)

\* the date strings of the pool pipe_datebuilder has no date for
Unrecognised == {<<"x">> \o S__days, <<"1", "3", "-", "2", "-", "1", "4">>, <<"z", "z">>}

\* item k is the first one of the input that pipe_datebuilder fails on
FirstFailure(k) ==
    /\ k \in 1..Len(items)
    /\ items[k] \in Unrecognised
    /\ \A i \in 1..(k - 1) : items[i] \notin Unrecognised

\* C22: when pipe_datebuilder fails on its k-th record, the pull that asked for
\* it ends with the error; the k-1 earlier records have been delivered as the
\* stage made them, and the output never ends normally (as exhausted or empty)
\* in place of the error
C22_FailureReachesCaller ==
    /\ [](\A i \in 1..Len(received) : received[i] = new_date(items[i]).tuple)
    /\ [](caller = "failed" =>
             /\ FirstFailure(pulls)
             /\ Len(received) = pulls - 1)
    /\ [](caller = "ended" => \A i \in 1..Len(items) : items[i] \notin Unrecognised)
    /\ \A k \in 1..MaxItems :
          (caller = "waiting" /\ pulls = k /\ FirstFailure(k)) ~> (caller = "failed")

\* the second record failed: one record was delivered, then the error
C22_Witness ==
    /\ caller = "failed"
    /\ pulls = 2
    /\ Len(received) = 1
    /\ items[2] = <<"z", "z">>

----------------------------------------------------------------------------
(* C23: the order of modules that are ready together *)

\* the order the sorter gives when it sees the nodes as the graph builder
\* inserted them
InsertionOrdered(pd) == topological_sort(PrunedGraph(pd)).order

\* C23: compilation is deterministic: the module order of a description is
\* always the same one, the order in which, of the modules that are ready
\* together, the one inserted earlier in the description comes first
C23_DeterministicOrder ==
    (Sorted /\ error # "CyclicGraphError") => module_ids = InsertionOrdered(pipe_def)

\* two unconnected nodes have been ordered against their insertion order
C23_Reached ==
    /\ Sorted
    /\ error # "CyclicGraphError"
    /\ Len(module_ids) >= 2
    /\ \E i, j \in 1..Len(module_ids) :
          /\ i < j
          /\ Predecessors(pipe.graph, module_ids[i]) = {}
          /\ Predecessors(pipe.graph, module_ids[j]) = {}
          /\ Before(InsertionOrdered(pipe_def), module_ids[j], module_ids[i])

----------------------------------------------------------------------------
(* C24: what a run yields *)

\* _get_steps has returned: every module of the order has its step
Assembled ==
    /\ Sorted
    /\ pc # "steps"
    /\ error # "CyclicGraphError"
    /\ \A i \in 1..Len(module_ids) : module_ids[i] \in DOMAIN steps

\* C24: in a run that describes nothing, what build_pipeline iterates over and
\* yields from is the stage recorded for the last module id of the order, and
\* nothing else
C24_OutputIsFinalStage ==
    (~Describing /\ Assembled) =>
       /\ module_ids # <<>>
       /\ pipeline.kind \in {"none", "stage"}
       /\ pipeline.kind = "stage" => pipeline.stage = steps[module_ids[Len(module_ids)]]
       /\ pc \in {"run", "done"} => pipeline.kind = "stage"

\* the only module of a description has no wire: the order is empty and the
\* run has ended with the IndexError of module_ids[-1]
C24_Reached ==
    /\ ~Describing
    /\ Len(pipe_def.modules) = 1
    /\ Assembled
    /\ module_ids = <<>>
    /\ pc = "error"
    /\ error = "IndexError"

----------------------------------------------------------------------------
(* C25: the sources of a module's wires are assembled before it *)

\* the source modules of the wires of the parsed pipe that end at a module
SourcesInto(p, module_id) ==
    {pythonise(p.wires[k].src.moduleid) :
        k \in {j \in DOMAIN p.wires : pythonise(p.wires[j].tgt.moduleid) = module_id}}

\* C25: at every step of the walk over the order, when the constructor of a
\* module is invoked the stage mapping already holds an entry for the source
\* of every wire that ends at the module, default or auxiliary, and no
\* lookup steps[source] of the wiring resolution fails: a KeyError comes only
\* from a node of the order that is no module
C25_SourcesAssembled ==
    /\ [][calls' # calls =>
            SourcesInto(pipe, calls'[Len(calls')].module_id) \subseteq DOMAIN steps]_vars
    /\ [](\A c \in 1..Len(calls) :
             /\ calls[c].input # Missing
             /\ \A k \in DOMAIN calls[c].kwargs : calls[c].kwargs[k] # Missing)
    /\ []((pc = "error" /\ error = "KeyError") => module_ids[idx] \notin DOMAIN pipe.modules)

\* a module with a default and an auxiliary wire has been constructed with the
\* stages of both sources
C25_Witness ==
    /\ Len(calls) = 3
    /\ Cardinality(SourcesInto(pipe, calls[3].module_id)) = 2
    /\ calls[3].input.kind = "stage"
    /\ pythonise(S_2nd) \in DOMAIN calls[3].kwargs
    /\ calls[3].kwargs[pythonise(S_2nd)].kind = "stage"
    /\ calls[3].kwargs[pythonise(S_2nd)] # calls[3].input

----------------------------------------------------------------------------
(* The wiring resolution without steps, as _gen_string_modules uses it *)

\* Id(name): a name to be written into the emitted source
Id(name) == Val("id", name, 0)

\* a variant of the resolution without steps that takes the last matching wire
get_input_module_string_last(p, module_id) ==
    LET ws == WiresInOrder(p)
        hits == {i \in 1..Len(ws) : is_default_in_and_out(ws[i], module_id)}
    IN  IF module_id \in DOMAIN p.embed THEN S_INPUT
        ELSE IF hits = {} THEN S_forever
        ELSE LET last == CHOOSE i \in hits : \A j \in hits : j <= i
             IN  pythonise(ws[last].src.moduleid)

\* _get_input_module(pipe, module_id, None): the name of the default input
get_input_module_string(p, module_id) ==
    LET ws == WiresInOrder(p)
        hits == {i \in 1..Len(ws) : is_default_in_and_out(ws[i], module_id)}
    IN  IF module_id \in DOMAIN p.embed THEN S_INPUT
        ELSE IF hits = {} THEN S_forever
        ELSE LET first == CHOOSE i \in hits : \A j \in hits : i <= j
             IN  pythonise(ws[first].src.moduleid)

\* _get_pyargs(context, pipe, module_id): [Id('context'), Id(input_module)]
get_pyargs_string(p, module_id) ==
    <<Id(<<"c", "o", "n", "t", "e", "x", "t">>), Id(get_input_module_string(p, module_id))>>

\* the pairs the wires contribute to _gen_pykwargs without steps
RECURSIVE WireNames(_, _)
WireNames(ws, module_id) ==
    IF ws = <<>> THEN <<>>
    ELSE IF is_default_out_only(Head(ws), module_id)
         THEN << <<pythonise(Head(ws).tgt.id), Id(pythonise(Head(ws).src.moduleid))>> >>
              \o WireNames(Tail(ws), module_id)
         ELSE WireNames(Tail(ws), module_id)

\* _gen_pykwargs(context, pipe, module_id): the pairs it yields without steps
gen_pykwargs_string(p, module_id) ==
    LET module == p.modules[module_id]
        ws == WiresInOrder(p)
        embedded == IF module.type = S_loop
                    THEN << <<S_embed, Id(S_pipe_ \o pythonise(module.embed[1].id))>> >>
                    ELSE <<>>
        count == Cardinality({i \in 1..Len(ws) : filter_func(module_id, ws[i])})
        splits == IF module.type = S_split
                  THEN << <<S_splits, Val("id", <<>>, count)>> >>
                  ELSE <<>>
    IN  << <<S_conf, ConfOf(module_id)>> >>
        \o WireNames(ws, module_id) \o embedded \o splits

----------------------------------------------------------------------------
(* C26: the resolution with and without steps *)

\* C26: for every module whose constructor is invoked, the resolution without
\* steps names module m as default input exactly when the resolution with
\* steps gave the stage recorded for m (forever for the sentinel), and the
\* named auxiliary inputs of both have the same keys, bound to the same
\* source modules
C26_ResolutionsAgree ==
    \A c \in 1..Len(calls) :
       LET id == calls[c].module_id
           name == get_pyargs_string(pipe, id)[2].of
           named == DictFromPairs(gen_pykwargs_string(pipe, id))
           given == calls[c].kwargs
       IN  /\ \A m \in DOMAIN steps : (name = m) <=> (calls[c].input = steps[m])
           /\ name \in DOMAIN steps
           /\ DOMAIN named = DOMAIN given
           /\ \A k \in DOMAIN given \ {S_conf, S_embed, S_splits} :
                 /\ named[k].kind = "id"
                 /\ given[k] = Lookup(steps, named[k].of)

\* a module with two wires to its default input and one with an auxiliary
\* input have been constructed
C26_Witness ==
    /\ pc = "run"
    /\ \E c \in 1..Len(calls) :
          /\ Cardinality(DefaultWires(pipe_def, calls[c].module_id)) = 2
          /\ Cardinality(SourcesInto(pipe, calls[c].module_id)) = 2
          /\ calls[c].input.kind = "stage"

C26_WitnessAux ==
    \E c \in 1..Len(calls) :
       /\ DOMAIN calls[c].kwargs \ {S_conf, S_embed, S_splits} # {}
       /\ calls[c].input = Forever

----------------------------------------------------------------------------
(* C27: no stage runs ahead of consumption *)

\* C27: pipe_datebuilder takes exactly one item from its input for each record
\* it yields, and build_pipeline takes one record from the final stage for each
\* record the caller asks for: no stage of the chain has produced more records
\* than the caller has asked for, and between two pulls every stage has
\* produced exactly the records the caller has received
C27_NoRunAhead ==
    /\ [](yielded <= produced /\ produced <= yielded + 1)
    /\ [](produced <= pulls /\ yielded <= pulls)
    /\ [](caller \in {"idle", "stopped"} =>
             produced = Len(received) /\ yielded = Len(received))
    /\ [][yielded' # yielded => yielded' = yielded + 1 /\ produced = yielded']_vars
    /\ [][produced' # produced => produced' = produced + 1 /\ caller = "waiting"]_vars

\* the caller stopped after two of three items: the third was never pulled
C27_Witness ==
    /\ Len(items) = 3
    /\ caller = "stopped"
    /\ Len(received) = 2
    /\ produced = 2
    /\ yielded = 2

----------------------------------------------------------------------------
(* pipeexchangerate.py *)

S_USD == <<"U", "S", "D">>
S_EUR == <<"E", "U", "R">>
S_GBP == <<"G", "B", "P">>

\* 'USD/%s' % cur
RateName(cur) == S_USD \o <<"/">> \o cur

\* a price of the table or of the service, and the arithmetic on prices: a
\* number is kept as the text of the expression the code evaluates
Price(origin, cur) == <<origin, ":">> \o cur
One == <<"1">>
InvFloat(x) == <<"1", "/", "float", "(">> \o x \o <<")">>
Times(x, y) == x \o <<"*">> \o y
Inv(x) == <<"(", "1", "/">> \o x \o <<")">>

\* FIELDS (its entries for USD, EUR and GBP)
FIELDS ==
    << [name |-> RateName(S_USD), price |-> One],
       [name |-> RateName(S_EUR), price |-> Price("FIELDS", S_EUR)],
       [name |-> RateName(S_GBP), price |-> Price("FIELDS", S_GBP)] >>

\* the fields of the resources get_rate_data returns: all currencies, or none for GBP
RateData ==
    { << [name |-> RateName(S_USD), price |-> Price("service", S_USD)],
         [name |-> RateName(S_EUR), price |-> Price("service", S_EUR)],
         [name |-> RateName(S_GBP), price |-> Price("service", S_GBP)] >>,
      << [name |-> RateName(S_USD), price |-> Price("service", S_USD)],
         [name |-> RateName(S_EUR), price |-> Price("service", S_EUR)] >> }

\* the outcome of a call: the exception raised ("none" if none) and the value
Outcome(raises, value) == [raises |-> raises, value |-> value]

get_base(conf, word) ==
    [base |-> IF word # <<>> THEN word ELSE conf.default,
     offline |-> IF conf.offline = "absent" THEN FALSE ELSE conf.offline = "yes"]

parse_request(data, offline) ==
    LET fields == IF offline THEN FIELDS ELSE data
    IN  DictFromPairs([i \in 1..Len(fields) |-> <<fields[i].name, fields[i].price>>])

calc_rate(from_cur, to_cur, rates) ==
    IF from_cur = to_cur THEN Outcome("none", InvFloat(One))
    ELSE IF RateName(from_cur) \notin DOMAIN rates THEN Outcome("KeyError", <<>>)
    ELSE IF to_cur = S_USD THEN Outcome("none", InvFloat(rates[RateName(from_cur)]))
    ELSE IF RateName(to_cur) \notin DOMAIN rates THEN Outcome("KeyError", <<>>)
    ELSE Outcome("none", InvFloat(Times(rates[RateName(from_cur)],
                                        Inv(rates[RateName(to_cur)]))))

\* parse_result; data is what get_rate_data() returns
parse_result(conf, word, pass, data) ==
    LET b == get_base(conf, word)
        got == IF b.offline THEN Missing ELSE data
        rates == parse_request(got, b.offline)
    IN  IF pass THEN Outcome("none", b.base) ELSE calc_rate(b.base, conf.quote, rates)

\* a variant of asyncParseResult that converts the words that are to pass
asyncParseResult_nopass(conf, word, pass, data) ==
    LET b == get_base(conf, word)
        rates == parse_request(data, b.offline)
    IN  calc_rate(b.base, conf.quote, rates)

\* asyncParseResult: what its deferred fires with; data is what the deferred
\* of asyncGetRateData fires with, asyncNone fires with None
asyncParseResult(conf, word, pass, data) ==
    LET b == get_base(conf, word)
        fired == IF b.offline THEN Missing ELSE data
        rates == parse_request(fired, b.offline)
        result == IF pass THEN Outcome("none", b.base)
                  ELSE calc_rate(b.base, conf.quote, rates)
    IN  result

\* the words of the input, each with the _pass flag the dispatch gives it
WordPool == {<<>>, S_USD, S_EUR, S_GBP}
Confs ==
    {[quote |-> q, default |-> d, offline |-> o] :
        q \in {S_USD, S_EUR}, d \in {S_USD, S_GBP}, o \in {"yes", "no", "absent"}}

Pending == Outcome("pending", <<>>)
NotFired == [fired |-> FALSE, raises |-> "none", values |-> <<>>]

\* both stages are given the same input, conf and rate data; nothing has run
RateInit ==
    /\ CompilerIdle("rate")
    /\ NoSplit
    /\ NoPull
    /\ \E conf \in Confs, data \in RateData,
          pairs \in SeqsUpTo(WordPool \X BOOLEAN, MaxWords) :
          rate_in = [conf |-> conf, data |-> data, pairs |-> pairs]
    /\ a_steps = <<>>
    /\ a_items = <<>>
    /\ a_out = NotFired
    /\ s_out = <<>>
    /\ s_state = "idle"

\* splits = yield asyncGetSplits(...): the deferred fires, the generator resumes
AsyncGetSplits ==
    /\ a_steps = <<>>
    /\ a_steps' = <<"split">>
    /\ UNCHANGED <<rate_in, a_items, a_out, s_out, s_state>>
    /\ UNCHANGED <<compileVars, splitVars, pullVars>>

\* parsed = yield asyncDispatch(...): the deferred fires, the generator resumes
\* and calls asyncStarMap, which starts asyncParseResult on every pair
AsyncDispatch ==
    /\ a_steps = <<"split">>
    /\ a_steps' = <<"split", "dispatch">>
    /\ a_items' = [i \in 1..Len(rate_in.pairs) |-> Pending]
    /\ UNCHANGED <<rate_in, a_out, s_out, s_state>>
    /\ UNCHANGED <<compileVars, splitVars, pullVars>>

\* the deferred of one asyncParseResult fires, in any order among the pairs
AsyncParseResult ==
    /\ a_steps = <<"split", "dispatch">>
    /\ \E i \in 1..Len(a_items) :
          /\ a_items[i] = Pending
          /\ a_items' = [a_items EXCEPT ![i] =
                            asyncParseResult(rate_in.conf, rate_in.pairs[i][1],
                                             rate_in.pairs[i][2], rate_in.data)]
    /\ UNCHANGED <<rate_in, a_steps, a_out, s_out, s_state>>
    /\ UNCHANGED <<compileVars, splitVars, pullVars>>

\* _OUTPUT = yield asyncStarMap(...): the deferred fires with the results in
\* the order of the pairs, or fails; returnValue(iter(_OUTPUT))
AsyncStarMap ==
    /\ a_steps = <<"split", "dispatch">>
    /\ \A i \in 1..Len(a_items) : a_items[i] # Pending
    /\ a_steps' = <<"split", "dispatch", "parse">>
    /\ a_out' = IF \E i \in 1..Len(a_items) : a_items[i].raises # "none"
                THEN [fired |-> TRUE, raises |-> "KeyError", values |-> <<>>]
                ELSE [fired |-> TRUE, raises |-> "none",
                      values |-> [i \in 1..Len(a_items) |-> a_items[i].value]]
    /\ UNCHANGED <<rate_in, a_items, s_out, s_state>>
    /\ UNCHANGED <<compileVars, splitVars, pullVars>>

\* next() on the starmap pipe_exchangerate returns: parse_result on the next pair
SyncNext ==
    /\ s_state = "idle"
    /\ LET k == Len(s_out) + 1
       IN  IF k > Len(rate_in.pairs)
           THEN s_state' = "ended" /\ s_out' = s_out
           ELSE LET r == parse_result(rate_in.conf, rate_in.pairs[k][1],
                                      rate_in.pairs[k][2], rate_in.data)
                IN  IF r.raises = "none"
                    THEN s_out' = Append(s_out, r.value) /\ s_state' = s_state
                    ELSE s_out' = s_out /\ s_state' = "failed"
    /\ UNCHANGED <<rate_in, a_steps, a_items, a_out>>
    /\ UNCHANGED <<compileVars, splitVars, pullVars>>

RateNext ==
    \/ AsyncGetSplits
    \/ AsyncDispatch
    \/ AsyncParseResult
    \/ AsyncStarMap
    \/ SyncNext

SpecRate == RateInit /\ [][RateNext]_vars

----------------------------------------------------------------------------
(* C28: the asynchronous and the synchronous exchange rate stage *)

Furthest == IF branches = <<>> THEN 0
            ELSE CHOOSE n \in 0..Len(source) :
                    /\ \E b \in 1..Len(branches) : branches[b].pos = n
                    /\ \A b \in 1..Len(branches) : branches[b].pos <= n

\* C29: under any interleaving of the pulls on the branches of a split, the
\* records taken from the input are its first records, each taken once and in
\* order, and as many as the furthest branch has received; a pull takes a
\* record from the input only when the pulling branch is the furthest and has
\* received everything taken so far, and then takes exactly one; any other
\* pull leaves the input alone and yields the buffered record at the
\* branch's position.
C29_UpstreamPulledOnce ==
    /\ [](/\ Len(buffer) <= Len(source)
          /\ \A i \in 1..Len(buffer) : buffer[i] = source[i].ref
          /\ \A i, j \in 1..Len(buffer) : buffer[i] = buffer[j] => i = j
          /\ Len(buffer) = Furthest)
    /\ [][/\ buffer' # buffer =>
               \E b \in 1..Len(branches) :
                   /\ branches[b].pos = Furthest
                   /\ branches[b].pos = Len(buffer)
                   /\ branches'[b].pos = branches[b].pos + 1
                   /\ buffer' = Append(buffer, source[Len(buffer) + 1].ref)
          /\ \A b \in 1..Len(branches) :
               (branches'[b].pos # branches[b].pos /\ branches[b].pos < Len(buffer)) =>
                   /\ buffer' = buffer
                   /\ branches'[b].seen[branches'[b].pos] =
                         DeepValue(heap, buffer[branches'[b].pos])]_vars

\* C29 witness: two branches have each received both records of the input, in
\* four pulls, and two records were taken from the input
C29_Witness ==
    /\ Len(source) = 2
    /\ Len(buffer) = 2
    /\ Len(branches) = 2
    /\ \A b \in 1..2 : branches[b].pos = 2 /\ ~branches[b].exhausted

====
